---- MODULE Spec2Model ----
(***************************************************************************)
(* Model of the TerminologiaOberta converters:                             *)
(*   TO2TBX.py        (language-list mode, TBX output)                     *)
(*   TO2TBX-GUI.py    (source/target mode, TBX output)                     *)
(*   TO2tabtxt-GUI.py (source/target mode, tab-separated output)           *)
(* Text is modelled as a sequence of one-character strings, so that        *)
(* str.strip, str.lower, str.split, str.startswith and the regular         *)
(* expressions of the scripts are computed character by character.         *)
(* Python values whose type matters (None, str, list, set, a raised        *)
(* TypeError) are records tagged by the field t.                           *)
(***************************************************************************)
EXTENDS Integers, Sequences, FiniteSets, TLC

VARIABLES
    fn,       \* pure-function harness: the function under call
    arg,      \* pure-function harness: its argument
    ret,      \* pure-function harness: its result
    ret2,     \* pure-function harness: the result of a second application
    prog,     \* which script runs
    pc,       \* position in the script
    cfg,      \* the call's parameters after normalisation
    entry_count,
    exported_entries,
    root,     \* the parsed input document, or the failure of reading it
    cur,      \* locals of the entry being processed
    body,     \* exported output: termEntry elements or rows
    output_file,  \* what has happened to the destination file
    log       \* messages reported to the user

callVars == <<fn, arg, ret, ret2>>
pipeVars == <<prog, pc, cfg, entry_count, exported_entries, root, cur, body, output_file, log>>
vars == <<fn, arg, ret, ret2, prog, pc, cfg, entry_count, exported_entries, root, cur, body,
          output_file, log>>

-----------------------------------------------------------------------------
(* Bounds of the model *)

MaxFilterLen == 3      \* characters of a free-text filter specification
MaxFilterTokens == 2   \* elements of a tokenised filter list
MaxTermLen == 3        \* characters of an enumerated raw term
MaxDenominations == 2  \* denominacio elements of an enumerated entry
MaxEntries == 2        \* fitxa elements of an enumerated document

-----------------------------------------------------------------------------
(* Characters and strings *)

UpperCase == <<"A", "B", "C", "D", "E", "F", "G", "H", "I", "J", "K", "L", "M",
               "N", "O", "P", "Q", "R", "S", "T", "U", "V", "W", "X", "Y", "Z">>
LowerCase == <<"a", "b", "c", "d", "e", "f", "g", "h", "i", "j", "k", "l", "m",
               "n", "o", "p", "q", "r", "s", "t", "u", "v", "w", "x", "y", "z">>

IsSpace(c) == c \in {" ", "\t", "\n", "\r"}

IsUpper(c) == \E i \in 1..26 : UpperCase[i] = c

LowerChar(c) ==
    IF IsUpper(c) THEN LowerCase[CHOOSE i \in 1..26 : UpperCase[i] = c] ELSE c

\* str.lower()
Lower(s) == [i \in 1..Len(s) |-> LowerChar(s[i])]

SetMin(S) == CHOOSE x \in S : \A y \in S : x <= y
SetMax(S) == CHOOSE x \in S : \A y \in S : x >= y

\* str.strip()
Strip(s) ==
    LET solid == {i \in 1..Len(s) : ~IsSpace(s[i])}
    IN  IF solid = {} THEN <<>> ELSE SubSeq(s, SetMin(solid), SetMax(solid))

\* str.startswith(prefix)
StartsWith(s, prefix) ==
    Len(prefix) <= Len(s) /\ SubSeq(s, 1, Len(prefix)) = prefix

\* str.replace('\n', ' ')
ReplaceNewlines(s) == [i \in 1..Len(s) |-> IF s[i] = "\n" THEN " " ELSE s[i]]

\* All strings of at most n characters over the alphabet A
StringsUpTo(A, n) == UNION {[1..k -> A] : k \in 0..n}

-----------------------------------------------------------------------------
(* Python values *)

PyNone == [t |-> "None"]
PyStr(s) == [t |-> "str", v |-> s]
PyList(l) == [t |-> "list", v |-> l]
PySet(S) == [t |-> "set", v |-> S]
PyTypeError == [t |-> "TypeError"]

\* A variable or local that holds nothing yet
Idle == [t |-> "idle"]

\* Python truth value of a filter argument: None and empty containers are false
Truthy(x) ==
    /\ x.t # "None"
    /\ x.t \in {"str", "list"} => x.v # <<>>
    /\ x.t = "set" => x.v # {}

Elements(x) == IF x.t = "set" THEN x.v ELSE {x.v[i] : i \in 1..Len(x.v)}

-----------------------------------------------------------------------------
(* Filter Normalizer *)

\* re.split(r'[,\s\n]+', filter_str): the pieces between maximal separator runs
IsFilterSep(c) == c = "," \/ IsSpace(c)

RECURSIVE re_split(_)
re_split(s) ==
    LET seps == {i \in 1..Len(s) : IsFilterSep(s[i])}
    IN  IF seps = {} THEN <<s>>
        ELSE LET i == SetMin(seps)
                 after == {j \in i..Len(s) : ~IsFilterSep(s[j])}
                 rest == IF after = {} THEN <<>> ELSE SubSeq(s, SetMin(after), Len(s))
             IN  <<SubSeq(s, 1, i - 1)>> \o re_split(rest)

\* Mutation: the tokens are not lowercased
NormalizedSet_NoLower(tokens) == {Strip(f) : f \in {g \in tokens : Strip(g) # <<>>}}

\* The set comprehension shared by the three normalisers
NormalizedSet(tokens) == {Lower(Strip(f)) : f \in {g \in tokens : Strip(g) # <<>>}}

\* Mutation: the normalised set is returned even when it is empty
normalize_filter_list_NoNone(filter_list) ==
    IF ~Truthy(filter_list) THEN PyNone
    ELSE PySet(NormalizedSet(Elements(filter_list)))

\* TO2TBX.py: list of strings (or None) -> set or None
normalize_filter_list(filter_list) ==
    IF ~Truthy(filter_list) THEN PyNone
    ELSE LET normalized_set == NormalizedSet(Elements(filter_list))
         IN  IF normalized_set # {} THEN PySet(normalized_set) ELSE PyNone

\* TO2TBX-GUI.py: free text -> set or None; re.split rejects a non-string
normalize_filter_list_GUI(filter_str) ==
    IF ~Truthy(filter_str) THEN PyNone
    ELSE IF filter_str.t # "str" THEN PyTypeError
    ELSE LET filter_list == re_split(filter_str.v)
             normalized_set == NormalizedSet(Elements(PyList(filter_list)))
         IN  IF normalized_set # {} THEN PySet(normalized_set) ELSE PyNone

\* TO2tabtxt-GUI.py: free text -> set or None
normalize_filter_list_tabtxt(filter_str) ==
    IF ~Truthy(filter_str) THEN PyNone
    ELSE IF filter_str.t # "str" THEN PyTypeError
    ELSE LET filter_list == re_split(filter_str.v)
             normalized_set == NormalizedSet(Elements(PyList(filter_list)))
         IN  IF normalized_set # {} THEN PySet(normalized_set) ELSE PyNone

Normalizers == {"TO2TBX.normalize_filter_list",
                "TO2TBX-GUI.normalize_filter_list",
                "TO2tabtxt-GUI.normalize_filter_list"}

ApplyNormalizer(f, x) ==
    CASE f = "TO2TBX.normalize_filter_list" -> normalize_filter_list(x)
      [] f = "TO2TBX-GUI.normalize_filter_list" -> normalize_filter_list_GUI(x)
      [] f = "TO2tabtxt-GUI.normalize_filter_list" -> normalize_filter_list_tabtxt(x)

-----------------------------------------------------------------------------
(* Term Cleaner *)

FirstAtLeast(S, i) == SetMin({k \in S : k >= i})

\* Mutation: greedy matching, '.*' runs to the last closing bracket
MatchEnd_Greedy(s, i) ==
    LET solid == {j \in i..Len(s) : ~IsSpace(s[j])}
    IN  IF solid = {} THEN 0
        ELSE LET j == SetMin(solid)
                 close == IF s[j] = "(" THEN ")" ELSE IF s[j] = "[" THEN "]" ELSE ""
                 ends == {k \in (j + 1)..Len(s) :
                             /\ s[k] = close
                             /\ \A m \in (j + 1)..(k - 1) : s[m] # "\n"}
             IN  IF close = "" \/ ends = {} THEN 0 ELSE SetMax(ends)

\* The end of the match of r'\s*\(.*?\)|\s*\[.*?\]' that starts at position i,
\* or 0 when the pattern does not match there. \s* runs up to the first
\* non-blank character, which must be the opening bracket; .*? stops at the
\* first closing bracket of that kind, and '.' matches no line break.
MatchEnd(s, i) ==
    LET solid == {j \in i..Len(s) : ~IsSpace(s[j])}
    IN  IF solid = {} THEN 0
        ELSE LET j == SetMin(solid)
                 close == IF s[j] = "(" THEN ")" ELSE IF s[j] = "[" THEN "]" ELSE ""
                 ends == {k \in (j + 1)..Len(s) :
                             /\ s[k] = close
                             /\ \A m \in (j + 1)..(k - 1) : s[m] # "\n"}
             IN  IF close = "" \/ ends = {} THEN 0 ELSE SetMin(ends)

\* re.sub(pattern, '', term): left to right, every match is deleted and the
\* scan resumes after it
RECURSIVE re_sub(_, _)
re_sub(s, i) ==
    IF i > Len(s) THEN <<>>
    ELSE LET k == MatchEnd(s, i)
         IN  IF k > 0 THEN re_sub(s, k + 1) ELSE <<s[i]>> \o re_sub(s, i + 1)

\* str.split('|')
RECURSIVE split(_, _)
split(s, sep) ==
    LET at == {i \in 1..Len(s) : s[i] = sep}
    IN  IF at = {} THEN <<s>>
        ELSE <<SubSeq(s, 1, SetMin(at) - 1)>> \o split(SubSeq(s, SetMin(at) + 1, Len(s)), sep)

Contains(s, c) == \E i \in 1..Len(s) : s[i] = c

\* Mutation: the pieces are kept as they were split, not stripped
StripNonEmpty_NoStrip(pieces) == SelectSeq(pieces, LAMBDA t : Strip(t) # <<>>)

\* [t.strip() for t in pieces if t.strip()]
RECURSIVE StripNonEmpty(_)
StripNonEmpty(pieces) ==
    IF pieces = <<>> THEN <<>>
    ELSE IF Strip(Head(pieces)) # <<>>
         THEN <<Strip(Head(pieces))>> \o StripNonEmpty(Tail(pieces))
         ELSE StripNonEmpty(Tail(pieces))

\* Mutation: everything from the first opening bracket without a closing
\* bracket of its kind is removed
clean_and_split_term_DropUnclosed(term) ==
    LET unclosed == {p \in 1..Len(term) :
                        \/ term[p] = "(" /\ \A k \in (p + 1)..Len(term) : term[k] # ")"
                        \/ term[p] = "[" /\ \A k \in (p + 1)..Len(term) : term[k] # "]"}
        cleaned_term == Strip(re_sub(IF unclosed = {} THEN term
                                     ELSE SubSeq(term, 1, SetMin(unclosed) - 1), 1))
    IN  IF Contains(cleaned_term, "|")
        THEN StripNonEmpty(split(cleaned_term, "|"))
        ELSE IF cleaned_term # <<>> THEN <<cleaned_term>> ELSE <<>>

\* TO2TBX.py
clean_and_split_term(term) ==
    LET cleaned_term == Strip(re_sub(term, 1))
    IN  IF Contains(cleaned_term, "|")
        THEN StripNonEmpty(split(cleaned_term, "|"))
        ELSE IF cleaned_term # <<>> THEN <<cleaned_term>> ELSE <<>>

\* TO2TBX-GUI.py
clean_and_split_term_GUI(term) ==
    LET cleaned_term == Strip(re_sub(term, 1))
    IN  IF Contains(cleaned_term, "|")
        THEN StripNonEmpty(split(cleaned_term, "|"))
        ELSE IF cleaned_term # <<>> THEN <<cleaned_term>> ELSE <<>>

\* TO2tabtxt-GUI.py
clean_and_split_term_tabtxt(term) ==
    LET cleaned_term == Strip(re_sub(term, 1))
    IN  IF Contains(cleaned_term, "|")
        THEN StripNonEmpty(split(cleaned_term, "|"))
        ELSE IF cleaned_term # <<>> THEN <<cleaned_term>> ELSE <<>>

Cleaners == {"TO2TBX.clean_and_split_term",
             "TO2TBX-GUI.clean_and_split_term",
             "TO2tabtxt-GUI.clean_and_split_term"}

ApplyCleaner(f, x) ==
    CASE f = "TO2TBX.clean_and_split_term" -> clean_and_split_term(x)
      [] f = "TO2TBX-GUI.clean_and_split_term" -> clean_and_split_term_GUI(x)
      [] f = "TO2tabtxt-GUI.clean_and_split_term" -> clean_and_split_term_tabtxt(x)

-----------------------------------------------------------------------------
(* Filter predicate *)

AnyPrefix(category, prefixes) == \E prefix \in prefixes : StartsWith(category, prefix)

\* Mutation: a missing attribute passes an active filter
passes_filters_Lenient(category, denomination_type, denomination_jerarquia, normalized_category_prefixes, normalized_type_filters, normalized_jerarquia_filter) ==
    IF /\ Truthy(normalized_category_prefixes)
       /\ Lower(Strip(category)) # <<>>
       /\ ~AnyPrefix(Lower(Strip(category)), normalized_category_prefixes.v)
    THEN FALSE
    ELSE IF /\ Truthy(normalized_type_filters)
            /\ Lower(Strip(denomination_type)) # <<>>
            /\ Lower(Strip(denomination_type)) \notin normalized_type_filters.v
    THEN FALSE
    ELSE IF /\ Truthy(normalized_jerarquia_filter)
            /\ Lower(Strip(denomination_jerarquia)) # <<>>
            /\ Lower(Strip(denomination_jerarquia)) \notin normalized_jerarquia_filter.v
    THEN FALSE
    ELSE TRUE

\* TO2TBX.py
passes_filters(category, denomination_type, denomination_jerarquia, normalized_category_prefixes, normalized_type_filters, normalized_jerarquia_filter) ==
    IF /\ Truthy(normalized_category_prefixes)
       /\ \/ Lower(Strip(category)) = <<>>
          \/ ~AnyPrefix(Lower(Strip(category)), normalized_category_prefixes.v)
    THEN FALSE
    ELSE IF /\ Truthy(normalized_type_filters)
            /\ Lower(Strip(denomination_type)) \notin normalized_type_filters.v
    THEN FALSE
    ELSE IF /\ Truthy(normalized_jerarquia_filter)
            /\ Lower(Strip(denomination_jerarquia)) \notin normalized_jerarquia_filter.v
    THEN FALSE
    ELSE TRUE

\* TO2TBX-GUI.py
passes_filters_GUI(category, denomination_type, denomination_jerarquia, normalized_category_prefixes, normalized_type_filters, normalized_jerarquia_filter) ==
    IF /\ Truthy(normalized_category_prefixes)
       /\ \/ Lower(Strip(category)) = <<>>
          \/ ~AnyPrefix(Lower(Strip(category)), normalized_category_prefixes.v)
    THEN FALSE
    ELSE IF /\ Truthy(normalized_type_filters)
            /\ Lower(Strip(denomination_type)) \notin normalized_type_filters.v
    THEN FALSE
    ELSE IF /\ Truthy(normalized_jerarquia_filter)
            /\ Lower(Strip(denomination_jerarquia)) \notin normalized_jerarquia_filter.v
    THEN FALSE
    ELSE TRUE

\* for prefix in normalized_category_prefixes: if category.startswith(prefix): match, break
RECURSIVE PrefixLoop(_, _)
PrefixLoop(category, prefixes) ==
    IF prefixes = {} THEN FALSE
    ELSE LET prefix == CHOOSE x \in prefixes : TRUE
         IN  IF StartsWith(category, prefix) THEN TRUE
             ELSE PrefixLoop(category, prefixes \ {prefix})

\* TO2tabtxt-GUI.py
passes_filters_tabtxt(category, denomination_type, denomination_jerarquia, normalized_category_prefixes, normalized_type_filters, normalized_jerarquia_filter) ==
    IF Truthy(normalized_category_prefixes) /\ Lower(Strip(category)) = <<>>
    THEN FALSE
    ELSE IF /\ Truthy(normalized_category_prefixes)
            /\ ~PrefixLoop(Lower(Strip(category)), normalized_category_prefixes.v)
    THEN FALSE
    ELSE IF /\ Truthy(normalized_type_filters)
            /\ Lower(Strip(denomination_type)) \notin normalized_type_filters.v
    THEN FALSE
    ELSE IF /\ Truthy(normalized_jerarquia_filter)
            /\ Lower(Strip(denomination_jerarquia)) \notin normalized_jerarquia_filter.v
    THEN FALSE
    ELSE TRUE

FilterFns == {"TO2TBX.passes_filters",
              "TO2TBX-GUI.passes_filters",
              "TO2tabtxt-GUI.passes_filters"}

ApplyFilters(f, c, ty, j, ncp, ntf, njf) ==
    CASE f = "TO2TBX.passes_filters" -> passes_filters(c, ty, j, ncp, ntf, njf)
      [] f = "TO2TBX-GUI.passes_filters" -> passes_filters_GUI(c, ty, j, ncp, ntf, njf)
      [] f = "TO2tabtxt-GUI.passes_filters" -> passes_filters_tabtxt(c, ty, j, ncp, ntf, njf)

-----------------------------------------------------------------------------
(* Entry extraction: helpers shared by the converters *)

\* f'e{entry_count}'
Digits == <<"0", "1", "2", "3", "4", "5", "6", "7", "8", "9">>
\* Mutation: the positional identifier does not follow the position
FallbackId_First(n) == <<"e", "1">>

FallbackId(n) == <<"e", Digits[n + 1]>>

\* entry.get('num', f'e{entry_count}')
EntryId(entry, n) == IF entry.num = PyNone THEN FallbackId(n) ELSE entry.num.v

\* Mutation: a missing thematic area is always replaced by a placeholder
FindArea_Placeholder(entry, dflt) ==
    IF entry.areatematica = PyNone THEN <<"N", "/", "A">> ELSE entry.areatematica.v

\* entry.findtext('areatematica', default=dflt)
FindArea(entry, dflt) ==
    IF entry.areatematica = PyNone THEN dflt ELSE entry.areatematica.v

\* The dictionaries appended for the terms of one denomination
TermRecords(terms, category, denomination_type, denomination_jerarquia) ==
    [i \in 1..Len(terms) |->
        [term |-> terms[i], category |-> category,
         type |-> denomination_type, hierarchy |-> denomination_jerarquia]]

\* definitions[language] = text_content, for each definicio in document order
RECURSIVE DefinitionsLoop(_, _, _)
DefinitionsLoop(definicio, languages, definitions) ==
    IF definicio = <<>> THEN definitions
    ELSE LET definition == Head(definicio)
             language == Lower(Strip(definition.llengua))
             text_content == Strip(definition.text)
         IN  IF text_content # <<>> /\ language \in languages
             THEN DefinitionsLoop(Tail(definicio), languages,
                    [l \in DOMAIN definitions \cup {language} |->
                        IF l = language THEN text_content ELSE definitions[l]])
             ELSE DefinitionsLoop(Tail(definicio), languages, definitions)

NoDefinitions == [l \in {} |-> <<>>]

\* The locals of an entry before its denominations are read
NewEntry(entry_id, area_tematica, definitions, definitions_sl, languages) ==
    [entry_id |-> entry_id,
     area_tematica |-> area_tematica,
     definitions |-> definitions,
     definitions_sl |-> definitions_sl,
     denominations_by_lang |-> [l \in languages |-> <<>>],
     filtered_denominations |-> <<>>,
     has_valid_term |-> FALSE,
     stage |-> "reading",
     read |-> 0,
     denomination |-> Idle,
     processed_terms |-> Idle,
     emitted |-> <<>>]

\* Mutation: the part of speech is annotated whether or not it was asked for
TermNotes_CategoryAlways(d, with_category, with_type, with_hierarchy) ==
    (IF d.category # <<>>
        THEN <<[type |-> "partOfSpeech", text |-> d.category]>> ELSE <<>>)
    \o (IF with_type /\ d.type # <<>>
        THEN <<[type |-> "termType", text |-> d.type]>> ELSE <<>>)
    \o (IF with_hierarchy /\ d.hierarchy # <<>>
        THEN <<[type |-> "normativeAuthorization", text |-> d.hierarchy]>> ELSE <<>>)

\* The termNote children of a tig
TermNotes(d, with_category, with_type, with_hierarchy) ==
    (IF with_category /\ d.category # <<>>
        THEN <<[type |-> "partOfSpeech", text |-> d.category]>> ELSE <<>>)
    \o (IF with_type /\ d.type # <<>>
        THEN <<[type |-> "termType", text |-> d.type]>> ELSE <<>>)
    \o (IF with_hierarchy /\ d.hierarchy # <<>>
        THEN <<[type |-> "normativeAuthorization", text |-> d.hierarchy]>> ELSE <<>>)

Tigs(lang_terms, with_category, with_type, with_hierarchy) ==
    [i \in 1..Len(lang_terms) |->
        [term |-> lang_terms[i].term,
         termNotes |-> TermNotes(lang_terms[i], with_category, with_type, with_hierarchy)]]

-----------------------------------------------------------------------------
\* The children of a langSet in the order of their SubElement calls
LangSetChildren(langSet) ==
    (IF langSet.definition # PyNone THEN <<"descrip">> ELSE <<>>)
    \o [i \in 1..Len(langSet.tigs) |-> "tig"]

\* The children of a termEntry in the order of their SubElement calls
TermEntryChildren(termEntry) ==
    (IF termEntry.subject # PyNone THEN <<"descrip">> ELSE <<>>)
    \o [i \in 1..Len(termEntry.langSets) |-> "langSet"]

-----------------------------------------------------------------------------

(* TO2TBX.py: xml_to_tbx in language-list mode *)

\* Mutation: category, type and hierarchy are not copied to the terms
TBX_Denomination_NoAttributes(c, e, denomination) ==
    LET language == Lower(Strip(denomination.llengua))
        raw_term == Strip(denomination.text)
        seen == [e EXCEPT !.read = @ + 1, !.denomination = denomination,
                          !.processed_terms = Idle]
    IN  IF language \notin c.normalized_languages.v \/ raw_term = <<>> THEN seen
        ELSE IF ~passes_filters(Strip(denomination.categoria), Strip(denomination.tipus),
                                Strip(denomination.jerarquia),
                                c.normalized_category_prefixes, c.normalized_type_filters,
                                c.normalized_jerarquia_filter)
        THEN seen
        ELSE LET processed_terms == clean_and_split_term(raw_term)
             IN  [seen EXCEPT
                    !.has_valid_term = TRUE,
                    !.processed_terms = PyList(processed_terms),
                    !.denominations_by_lang[language] =
                        @ \o TermRecords(processed_terms, <<>>, <<>>, <<>>)]

\* Lines 163-192: one iteration of the loop over the denominations
TBX_Denomination(c, e, denomination) ==
    LET language == Lower(Strip(denomination.llengua))
        raw_term == Strip(denomination.text)
        category == Strip(denomination.categoria)
        denomination_type == Strip(denomination.tipus)
        denomination_jerarquia == Strip(denomination.jerarquia)
        seen == [e EXCEPT !.read = @ + 1, !.denomination = denomination,
                          !.processed_terms = Idle]
    IN  IF language \notin c.normalized_languages.v \/ raw_term = <<>> THEN seen
        ELSE IF ~passes_filters(category, denomination_type, denomination_jerarquia,
                                c.normalized_category_prefixes, c.normalized_type_filters,
                                c.normalized_jerarquia_filter)
        THEN seen
        ELSE LET processed_terms == clean_and_split_term(raw_term)
             IN  [seen EXCEPT
                    !.has_valid_term = TRUE,
                    !.processed_terms = PyList(processed_terms),
                    !.denominations_by_lang[language] =
                        @ \o TermRecords(processed_terms, category, denomination_type,
                                         denomination_jerarquia)]

\* Lines 198-247: the termEntry element of an entry
TBX_TermEntry(c, e) ==
    LET HasLangSet(lang_code) ==
            \/ e.denominations_by_lang[lang_code] # <<>>
            \/ c.include_definition /\ lang_code \in DOMAIN e.definitions
        LangSet(lang_code) ==
            [lang |-> lang_code,
             definition |-> IF c.include_definition /\ lang_code \in DOMAIN e.definitions
                            THEN PyStr(e.definitions[lang_code]) ELSE PyNone,
             tigs |-> Tigs(e.denominations_by_lang[lang_code],
                           c.include_category, TRUE, TRUE)]
        shown == SelectSeq(c.language_order, HasLangSet)
    IN  [id |-> e.entry_id,
         subject |-> IF c.include_area /\ e.area_tematica # <<>>
                     THEN PyStr(e.area_tematica) ELSE PyNone,
         langSets |-> [i \in 1..Len(shown) |-> LangSet(shown[i])]]

-----------------------------------------------------------------------------
(* TO2TBX-GUI.py: xml_to_tbx in source/target mode *)

\* Mutation: the filters are applied to the denominations of both languages
GUI_Denomination_FilterAll(c, e, denomination) ==
    LET language == Lower(Strip(denomination.llengua))
        raw_term == Strip(denomination.text)
        seen == [e EXCEPT !.read = @ + 1, !.denomination = denomination,
                          !.processed_terms = Idle]
        passed == passes_filters_GUI(Strip(denomination.categoria),
                                     Strip(denomination.tipus),
                                     Strip(denomination.jerarquia),
                                     c.normalized_category_prefixes,
                                     c.normalized_type_filters,
                                     c.normalized_jerarquia_filter)
    IN  IF language \notin {c.sl, c.tl} \/ raw_term = <<>> THEN seen
        ELSE IF ~passed THEN seen
        ELSE LET processed_terms == clean_and_split_term_GUI(raw_term)
             IN  [seen EXCEPT
                    !.has_valid_term = IF language = c.sl THEN TRUE ELSE @,
                    !.processed_terms = PyList(processed_terms),
                    !.denominations_by_lang[language] =
                        @ \o TermRecords(processed_terms, Strip(denomination.categoria),
                                         Strip(denomination.tipus),
                                         Strip(denomination.jerarquia))]

\* Lines 146-175: one iteration of the loop over the denominations
GUI_Denomination(c, e, denomination) ==
    LET language == Lower(Strip(denomination.llengua))
        raw_term == Strip(denomination.text)
        category == Strip(denomination.categoria)
        denomination_type == Strip(denomination.tipus)
        denomination_jerarquia == Strip(denomination.jerarquia)
        seen == [e EXCEPT !.read = @ + 1, !.denomination = denomination,
                          !.processed_terms = Idle]
        passed == passes_filters_GUI(category, denomination_type, denomination_jerarquia,
                                     c.normalized_category_prefixes,
                                     c.normalized_type_filters,
                                     c.normalized_jerarquia_filter)
    IN  IF language \notin {c.sl, c.tl} \/ raw_term = <<>> THEN seen
        ELSE IF language = c.sl /\ ~passed THEN seen
        ELSE LET processed_terms == clean_and_split_term_GUI(raw_term)
             IN  [seen EXCEPT
                    !.has_valid_term = IF language = c.sl THEN TRUE ELSE @,
                    !.processed_terms = PyList(processed_terms),
                    !.denominations_by_lang[language] =
                        @ \o TermRecords(processed_terms, category, denomination_type,
                                         denomination_jerarquia)]

\* Mutation: only the flag is tested, not the source-language list
GUI_Skipped_FlagOnly(c, e) == ~e.has_valid_term

\* Mutation: an entry with a definition is kept when definitions are included
GUI_Skipped_UnlessDefined(c, e) ==
    IF c.include_definition /\ DOMAIN e.definitions # {} THEN FALSE
    ELSE ~e.has_valid_term \/ e.denominations_by_lang[c.sl] = <<>>

\* Line 178: the entry is skipped
GUI_Skipped(c, e) == ~e.has_valid_term \/ e.denominations_by_lang[c.sl] = <<>>

\* Lines 182-222: the termEntry element of an entry
GUI_TermEntry(c, e) ==
    LET HasLangSet(lang_code) ==
            \/ e.denominations_by_lang[lang_code] # <<>>
            \/ c.include_definition /\ lang_code \in DOMAIN e.definitions
        LangSet(lang_code) ==
            [lang |-> lang_code,
             definition |-> IF /\ c.include_definition
                               /\ lang_code \in DOMAIN e.definitions
                               /\ e.definitions[lang_code] # <<>>
                            THEN PyStr(e.definitions[lang_code]) ELSE PyNone,
             tigs |-> Tigs(e.denominations_by_lang[lang_code],
                           c.include_category, c.include_type, c.include_hierarchy)]
        shown == SelectSeq(<<c.sl, c.tl>>, HasLangSet)
    IN  [id |-> e.entry_id,
         subject |-> IF c.include_area /\ e.area_tematica # <<>>
                     THEN PyStr(e.area_tematica) ELSE PyNone,
         langSets |-> [i \in 1..Len(shown) |-> LangSet(shown[i])]]

-----------------------------------------------------------------------------
(* TO2tabtxt-GUI.py: xml_to_tsv in source/target mode *)

\* Lines 143-150: the first definition in the source language
RECURSIVE tabtxt_DefinitionSL(_, _)
tabtxt_DefinitionSL(definicio, sl) ==
    IF definicio = <<>> THEN <<>>
    ELSE IF Head(definicio).llengua = sl
         THEN ReplaceNewlines(Strip(Head(definicio).text))
         ELSE tabtxt_DefinitionSL(Tail(definicio), sl)

\* Mutation: the filters are not applied
tabtxt_Denomination_Unfiltered(c, e, denomination) ==
    LET language == Lower(Strip(denomination.llengua))
        raw_term == Strip(denomination.text)
        seen == [e EXCEPT !.read = @ + 1, !.denomination = denomination,
                          !.processed_terms = Idle]
    IN  IF raw_term = <<>> \/ (language # c.sl /\ language # c.tl) THEN seen
        ELSE LET processed_terms == clean_and_split_term_tabtxt(raw_term)
                 records == TermRecords(processed_terms, Strip(denomination.categoria),
                                        Strip(denomination.tipus),
                                        Strip(denomination.jerarquia))
             IN  [seen EXCEPT
                    !.processed_terms = PyList(processed_terms),
                    !.filtered_denominations =
                        @ \o [i \in 1..Len(records) |->
                                [lang |-> language, term |-> records[i].term,
                                 category |-> records[i].category,
                                 type |-> records[i].type,
                                 hierarchy |-> records[i].hierarchy]]]

\* Lines 155-183: one iteration of the loop over the denominations
tabtxt_Denomination(c, e, denomination) ==
    LET language == Lower(Strip(denomination.llengua))
        raw_term == Strip(denomination.text)
        category == Strip(denomination.categoria)
        denomination_type == Strip(denomination.tipus)
        denomination_jerarquia == Strip(denomination.jerarquia)
        seen == [e EXCEPT !.read = @ + 1, !.denomination = denomination,
                          !.processed_terms = Idle]
    IN  IF raw_term = <<>> \/ (language # c.sl /\ language # c.tl) THEN seen
        ELSE IF ~passes_filters_tabtxt(category, denomination_type, denomination_jerarquia,
                                       c.normalized_category_prefixes,
                                       c.normalized_type_filters,
                                       c.normalized_jerarquia_filter)
        THEN seen
        ELSE LET processed_terms == clean_and_split_term_tabtxt(raw_term)
                 records == TermRecords(processed_terms, category, denomination_type,
                                        denomination_jerarquia)
             IN  [seen EXCEPT
                    !.processed_terms = PyList(processed_terms),
                    !.filtered_denominations =
                        @ \o [i \in 1..Len(records) |->
                                [lang |-> language, term |-> records[i].term,
                                 category |-> records[i].category,
                                 type |-> records[i].type,
                                 hierarchy |-> records[i].hierarchy]]]

\* [d for d in filtered_denominations if d['lang'] == lang]
RECURSIVE TermsOfLang(_, _)
TermsOfLang(filtered_denominations, lang) ==
    IF filtered_denominations = <<>> THEN <<>>
    ELSE IF Head(filtered_denominations).lang = lang
         THEN <<Head(filtered_denominations)>> \o TermsOfLang(Tail(filtered_denominations), lang)
         ELSE TermsOfLang(Tail(filtered_denominations), lang)

empty_tl_data == [lang |-> <<>>, term |-> <<>>, category |-> <<>>, type |-> <<>>,
                  hierarchy |-> <<>>]

\* Mutation: the hierarchy column is never written
tabtxt_Row_NoHierarchy(c, e, tsl_data, ttl_data) ==
    <<tsl_data.term, ttl_data.term>>
    \o (IF c.include_area THEN <<e.area_tematica>> ELSE <<>>)
    \o (IF c.include_definition THEN <<e.definitions_sl>> ELSE <<>>)
    \o (IF c.include_category THEN <<tsl_data.category>> ELSE <<>>)
    \o (IF c.include_type THEN <<tsl_data.type>> ELSE <<>>)

\* Lines 204-216: one row
tabtxt_Row(c, e, tsl_data, ttl_data) ==
    <<tsl_data.term, ttl_data.term>>
    \o (IF c.include_area THEN <<e.area_tematica>> ELSE <<>>)
    \o (IF c.include_definition THEN <<e.definitions_sl>> ELSE <<>>)
    \o (IF c.include_category THEN <<tsl_data.category>> ELSE <<>>)
    \o (IF c.include_type THEN <<tsl_data.type>> ELSE <<>>)
    \o (IF c.include_hierarchy THEN <<tsl_data.hierarchy>> ELSE <<>>)

\* Mutation: the combinations are enumerated target-major
tabtxt_Rows_TargetMajor(c, e) ==
    LET terms_sl == TermsOfLang(e.filtered_denominations, c.sl)
        terms_tl == TermsOfLang(e.filtered_denominations, c.tl)
        targets == IF terms_tl # <<>> THEN terms_tl ELSE <<empty_tl_data>>
    IN  [n \in 1..(Len(terms_sl) * Len(targets)) |->
            tabtxt_Row(c, e, terms_sl[((n - 1) % Len(terms_sl)) + 1],
                       targets[((n - 1) \div Len(terms_sl)) + 1])]

\* Lines 187-217: the rows of an entry, source-major
tabtxt_Rows(c, e) ==
    LET terms_sl == TermsOfLang(e.filtered_denominations, c.sl)
        terms_tl == TermsOfLang(e.filtered_denominations, c.tl)
        targets == IF terms_tl # <<>> THEN terms_tl ELSE <<empty_tl_data>>
    IN  [n \in 1..(Len(terms_sl) * Len(targets)) |->
            tabtxt_Row(c, e, terms_sl[((n - 1) \div Len(targets)) + 1],
                       targets[((n - 1) % Len(targets)) + 1])]

-----------------------------------------------------------------------------
(* TO2tabtxt.py: xml_to_tsv on the command line *)

PyBool(b) == [t |-> "bool", v |-> b]
PyNameError == [t |-> "NameError"]

\* Lines 7-32
clean_and_split_term_cli(term) ==
    LET cleaned_term == Strip(re_sub(term, 1))
    IN  IF Contains(cleaned_term, "|")
        THEN StripNonEmpty(split(cleaned_term, "|"))
        ELSE IF cleaned_term # <<>> THEN <<cleaned_term>> ELSE <<>>

\* Lines 112 and 114: {f.strip().lower() for f in filters} if filters else None
cli_NormalizedSet(filters) ==
    IF Truthy(filters) THEN PySet({Lower(Strip(f)) : f \in Elements(filters)})
    ELSE PyNone

\* Lines 35-72: an attribute that is missing passes an active filter. Line 54
\* reads normalized_jerarquia_filters, a name bound neither in the function
\* nor in the module: evaluating it raises NameError.
passes_filters_cli(category, denomination_type, denomination_jerarquia, normalized_category_prefixes, normalized_type_filters, normalized_jerarquia_filter) ==
    IF /\ Truthy(normalized_type_filters)
       /\ Lower(Strip(denomination_type)) # <<>>
       /\ Lower(Strip(denomination_type)) \notin normalized_type_filters.v
    THEN PyBool(FALSE)
    ELSE IF Truthy(normalized_type_filters) /\ Lower(Strip(denomination_jerarquia)) # <<>>
    THEN PyNameError
    ELSE IF /\ Truthy(normalized_category_prefixes)
            /\ Lower(Strip(category)) # <<>>
            /\ ~PrefixLoop(Lower(Strip(category)), normalized_category_prefixes.v)
    THEN PyBool(FALSE)
    ELSE PyBool(TRUE)

N_A == <<"N", "/", "A">>

\* Lines 120-124: the locals of an entry before its denominations are read
cli_NewEntry(area_tematica) ==
    [area_tematica |-> area_tematica,
     terms_sl_data |-> <<>>,
     terms_tl_data |-> <<>>,
     stage |-> "reading",
     read |-> 0,
     denomination |-> Idle,
     processed_terms |-> Idle,
     emitted |-> <<>>]

\* Mutation: the terms of the target language are not collected
cli_Denomination_NoTarget(c, e, denomination) ==
    LET passed == passes_filters_cli(Strip(denomination.categoria),
                                     Strip(denomination.tipus),
                                     Strip(denomination.jerarquia),
                                     c.normalized_category_prefixes,
                                     c.normalized_type_filters,
                                     c.normalized_type_filters)
        seen == [e EXCEPT !.read = @ + 1, !.denomination = denomination,
                          !.processed_terms = Idle]
        processed_terms == clean_and_split_term_cli(Strip(denomination.text))
    IN  IF passed = PyNameError THEN [seen EXCEPT !.stage = "crashed"]
        ELSE IF ~passed.v \/ Strip(denomination.text) = <<>> THEN seen
        ELSE [seen EXCEPT
                !.processed_terms = PyList(processed_terms),
                !.terms_sl_data =
                    IF denomination.llengua = c.sl
                    THEN @ \o [i \in 1..Len(processed_terms) |->
                                <<processed_terms[i], Strip(denomination.categoria),
                                  Strip(denomination.tipus)>>]
                    ELSE @]

\* Lines 126-155: one iteration of the loop over the denominations
cli_Denomination(c, e, denomination) ==
    LET language == denomination.llengua
        raw_term == Strip(denomination.text)
        category == Strip(denomination.categoria)
        denomination_type == Strip(denomination.tipus)
        denomination_jerarquia == Strip(denomination.jerarquia)
        seen == [e EXCEPT !.read = @ + 1, !.denomination = denomination,
                          !.processed_terms = Idle]
        passed == passes_filters_cli(category, denomination_type, denomination_jerarquia,
                                     c.normalized_category_prefixes,
                                     c.normalized_type_filters,
                                     c.normalized_type_filters)
    IN  IF passed = PyNameError THEN [seen EXCEPT !.stage = "crashed"]
        ELSE IF ~passed.v \/ raw_term = <<>> THEN seen
        ELSE LET processed_terms == clean_and_split_term_cli(raw_term)
                 data == [i \in 1..Len(processed_terms) |->
                            <<processed_terms[i], category, denomination_type>>]
             IN  [seen EXCEPT
                    !.processed_terms = PyList(processed_terms),
                    !.terms_sl_data = IF language = c.sl THEN @ \o data ELSE @,
                    !.terms_tl_data =
                        IF language # c.sl /\ language = c.tl THEN @ \o data ELSE @]

\* Lines 171-176: the texts of all definitions in the source language
RECURSIVE cli_DefinitionTexts(_, _)
cli_DefinitionTexts(definicio, sl) ==
    IF definicio = <<>> THEN <<>>
    ELSE (IF Head(definicio).llengua = sl
          THEN <<ReplaceNewlines(Strip(Head(definicio).text))>> ELSE <<>>)
         \o cli_DefinitionTexts(Tail(definicio), sl)

\* Lines 169-183: the definitions joined with the term pairs
cli_DefinitionsSL(c, definicio) ==
    LET texts == cli_DefinitionTexts(definicio, c.sl)
    IN  IF ~c.include_definition THEN <<PyNone>>
        ELSE IF texts = <<>> THEN <<PyStr(<<>>)>>
        ELSE [i \in 1..Len(texts) |-> PyStr(texts[i])]

\* Lines 198-214: one row
cli_Row(c, e, sl_data, tl_data, definition_sl) ==
    <<sl_data[1], tl_data[1]>>
    \o (IF c.include_category THEN <<sl_data[2], tl_data[2]>> ELSE <<>>)
    \o (IF c.include_area THEN <<e.area_tematica>> ELSE <<>>)
    \o (IF c.include_definition /\ definition_sl # PyNone THEN <<definition_sl.v>> ELSE <<>>)

\* Lines 164-216: the rows of an entry: source terms, then target terms, then
\* definitions
cli_Rows(c, e, definitions_sl) ==
    LET targets == IF e.terms_tl_data # <<>> THEN e.terms_tl_data
                   ELSE <<<< <<>>, <<>>, <<>> >>>>
        nT == Len(targets)
        nD == Len(definitions_sl)
    IN  [n \in 1..(Len(e.terms_sl_data) * nT * nD) |->
            cli_Row(c, e, e.terms_sl_data[((n - 1) \div (nT * nD)) + 1],
                    targets[(((n - 1) \div nD) % nT) + 1],
                    definitions_sl[((n - 1) % nD) + 1])]

-----------------------------------------------------------------------------
(* Specification of the Filter Normalizer as a called function *)

FilterAlphabet == {"n", "V", " ", ","}
TokenAlphabet == {"n", "V", " "}

FilterTexts == {PyStr(s) : s \in StringsUpTo(FilterAlphabet, MaxFilterLen)}
FilterLists ==
    {PyList(l) : l \in StringsUpTo(StringsUpTo(TokenAlphabet, 2), MaxFilterTokens)}

NormalizerInputs(f) ==
    IF f = "TO2TBX.normalize_filter_list"
    THEN FilterLists \cup {PyNone}
    ELSE FilterTexts \cup {PyNone}

PipeIdle ==
    /\ prog = "none"
    /\ pc = "idle"
    /\ cfg = Idle
    /\ entry_count = 0
    /\ exported_entries = 0
    /\ root = Idle
    /\ cur = Idle
    /\ body = <<>>
    /\ output_file = "untouched"
    /\ log = <<>>

InitNormalize ==
    /\ fn \in Normalizers
    /\ arg \in NormalizerInputs(fn)
    /\ ret = Idle
    /\ ret2 = Idle
    /\ PipeIdle

\* normalized = normalize_filter_list(raw)
CallNormalize ==
    /\ fn \in Normalizers
    /\ ret = Idle
    /\ ret' = ApplyNormalizer(fn, arg)
    /\ UNCHANGED <<fn, arg, ret2>>
    /\ UNCHANGED pipeVars

\* normalize_filter_list(normalized): the function applied to its own result
CallNormalizeAgain ==
    /\ fn \in Normalizers
    /\ ret # Idle
    /\ ret2 = Idle
    /\ ret2' = ApplyNormalizer(fn, ret)
    /\ UNCHANGED <<fn, arg, ret>>
    /\ UNCHANGED pipeVars

NextNormalize == CallNormalize \/ CallNormalizeAgain

SpecNormalize == InitNormalize /\ [][NextNormalize]_vars

\* The tokens of a filter specification: the elements of a list, or the maximal
\* runs of non-separator characters of a free text
MaximalRuns(s) ==
    {SubSeq(s, i, j) : <<i, j>> \in
        {p \in (1..Len(s)) \X (1..Len(s)) :
            /\ p[1] <= p[2]
            /\ \A k \in p[1]..p[2] : ~IsFilterSep(s[k])
            /\ p[1] = 1 \/ IsFilterSep(s[p[1] - 1])
            /\ p[2] = Len(s) \/ IsFilterSep(s[p[2] + 1])}}

TokensOf(x) ==
    CASE x.t = "None" -> {}
      [] x.t = "list" -> {x.v[i] : i \in 1..Len(x.v)}
      [] x.t = "str" -> MaximalRuns(x.v)

NonBlankTokens(x) == {tok \in TokensOf(x) : \E i \in 1..Len(tok) : ~IsSpace(tok[i])}

CleanToken(tok) ==
    /\ tok # <<>>
    /\ ~IsSpace(tok[1]) /\ ~IsSpace(tok[Len(tok)])
    /\ \A i \in 1..Len(tok) : ~IsUpper(tok[i])

\* C6: normalize_filter_list returns None when its input is empty, absent or
\* holds no non-blank token; otherwise it returns the set of its tokens, each
\* stripped and lowercased, duplicates collapsed. The result is never an empty
\* set and never holds an empty, whitespace-padded or upper-case token.
C6_NormalizeContract ==
    (fn \in Normalizers /\ ret # Idle) =>
        /\ ret.t \in {"None", "set"}
        /\ (ret.t = "None") <=> (NonBlankTokens(arg) = {})
        /\ ret.t = "set" =>
            /\ ret.v # {}
            /\ \A tok \in NonBlankTokens(arg) : Lower(Strip(tok)) \in ret.v
            /\ \A x \in ret.v : \E tok \in NonBlankTokens(arg) : x = Lower(Strip(tok))
            /\ \A x \in ret.v : CleanToken(x)

\* C6 witness: an input with an upper-case and a padded or separated token
\* was normalised to a two-element set
C6_Witness ==
    /\ fn \in Normalizers /\ ret # Idle
    /\ ret.t = "set" /\ Cardinality(ret.v) = 2
    /\ \E tok \in TokensOf(arg) : \E i \in 1..Len(tok) : IsUpper(tok[i])

\* C7 as stated: applying normalize_filter_list to the set it returned yields
\* that identical set, for every normaliser
C7_Idempotent_AsStated ==
    (fn \in Normalizers /\ ret2 # Idle /\ ret.t = "set") => ret2 = ret

\* The texts that list the tokens of a set, in any order, separated by commas
RECURSIVE JoinComma(_)
JoinComma(toks) ==
    IF toks = <<>> THEN <<>>
    ELSE IF Len(toks) = 1 THEN toks[1]
    ELSE toks[1] \o <<",">> \o JoinComma(Tail(toks))

Listings(S) ==
    {JoinComma(f) : f \in {g \in [1..Cardinality(S) -> S] :
                               \A i, j \in 1..Cardinality(S) : g[i] = g[j] => i = j}}

\* C7 amended: the list normaliser of TO2TBX.py is idempotent on its own
\* result; the text normalisers of the GUIs reject a set with a TypeError and
\* are idempotent through text, normalising any comma-separated listing of
\* the returned tokens to the identical set
C7_Idempotent_Amended ==
    (fn \in Normalizers /\ ret2 # Idle) =>
        IF fn = "TO2TBX.normalize_filter_list" THEN ret2 = ret
        ELSE /\ ret.t = "None" => ret2 = PyNone
             /\ ret.t = "set" =>
                   /\ ret2 = PyTypeError
                   /\ \A text \in Listings(ret.v) : ApplyNormalizer(fn, PyStr(text)) = ret

\* C7 witness: a non-empty set was normalised a second time by the list
\* normaliser and by a text normaliser
C7_Witness ==
    /\ fn \in Normalizers /\ ret2 # Idle
    /\ ret.t = "set" /\ Cardinality(ret.v) = 2

-----------------------------------------------------------------------------
(* Specification of the Term Cleaner as a called function *)

TermAlphabet == {"a", " ", "\n", "(", ")", "[", "]", "|"}

T_foo_bar_baz_qux ==
    <<"f", "o", "o", " ", "(", "b", "a", "r", ")", " ", "|", " ",
      "b", "a", "z", " ", "[", "q", "u", "x", "]">>
T_only_annotation ==
    <<"(", "o", "n", "l", "y", " ", "a", "n", "n", "o", "t", "a", "t", "i", "o", "n", ")">>
T_no_annotation ==
    <<"n", "o", " ", "a", "n", "n", "o", "t", "a", "t", "i", "o", "n">>
T_car_auto ==
    <<"c", "a", "r", " ", "(", "v", "e", "h", "i", "c", "l", "e", ")", " ", "|", " ",
      "a", "u", "t", "o">>
T_foo == <<"f", "o", "o">>
T_baz == <<"b", "a", "z">>
T_car == <<"c", "a", "r">>
T_auto == <<"a", "u", "t", "o">>

T_unclosed == <<"g", "o", "s", " ", "(", "c", "a", " ", "[", "x", "]", " ", "|", " ", "c", "a">>

ExampleTerms ==
    {T_foo_bar_baz_qux, T_only_annotation, T_no_annotation, T_car_auto, T_unclosed}

InitClean ==
    /\ fn \in Cleaners
    /\ arg \in {PyStr(s) : s \in StringsUpTo(TermAlphabet, MaxTermLen) \cup ExampleTerms}
    /\ ret = Idle
    /\ ret2 = Idle
    /\ PipeIdle

\* processed_terms = clean_and_split_term(raw_term)
CallClean ==
    /\ fn \in Cleaners
    /\ ret = Idle
    /\ ret' = PyList(ApplyCleaner(fn, arg.v))
    /\ UNCHANGED <<fn, arg, ret2>>
    /\ UNCHANGED pipeVars

NextClean == CallClean

SpecClean == InitClean /\ [][NextClean]_vars

\* The annotations of a raw term as the claim describes them: scanning from
\* the left, each '( ... )' or '[ ... ]' substring, from an opening bracket to
\* the first closing bracket of its kind, with the whitespace right before it
AnnotationEnd(s, i) ==
    LET solid == {j \in i..Len(s) : ~IsSpace(s[j])}
    IN  IF solid = {} THEN 0
        ELSE LET j == SetMin(solid)
                 ends == {k \in (j + 1)..Len(s) :
                             \/ s[j] = "(" /\ s[k] = ")"
                             \/ s[j] = "[" /\ s[k] = "]"}
             IN  IF ends = {} THEN 0 ELSE SetMin(ends)

RECURSIVE AnnotationPositions(_, _)
AnnotationPositions(s, i) ==
    IF i > Len(s) THEN {}
    ELSE IF AnnotationEnd(s, i) > 0
         THEN (i..AnnotationEnd(s, i)) \cup AnnotationPositions(s, AnnotationEnd(s, i) + 1)
         ELSE AnnotationPositions(s, i + 1)

\* The characters of s at the positions of P, in order
Pick(s, P) ==
    [n \in 1..Cardinality(P) |->
        s[CHOOSE i \in P : Cardinality({j \in P : j < i}) = n - 1]]

Remainder(s) == Strip(Pick(s, (1..Len(s)) \ AnnotationPositions(s, 1)))

\* The non-blank segments between separators, as pairs of positions, in order
SegmentBounds(r) ==
    {p \in (1..Len(r)) \X (1..Len(r)) :
        /\ p[1] <= p[2]
        /\ \A k \in p[1]..p[2] : r[k] # "|"
        /\ p[1] = 1 \/ r[p[1] - 1] = "|"
        /\ p[2] = Len(r) \/ r[p[2] + 1] = "|"
        /\ \E k \in p[1]..p[2] : ~IsSpace(r[k])}

Segments(r) ==
    LET B == SegmentBounds(r)
        nth(n) == CHOOSE p \in B : Cardinality({q \in B : q[1] < p[1]}) = n - 1
    IN  [n \in 1..Cardinality(B) |-> Strip(SubSeq(r, nth(n)[1], nth(n)[2]))]

\* C8 as stated: clean_and_split_term returns, in left-to-right order, exactly
\* the non-empty stripped segments obtained by deleting every '( ... )' and
\* '[ ... ]' substring with its preceding whitespace, stripping the remainder
\* and splitting it on '|'; 'foo (bar) | baz [qux]' gives ['foo','baz'],
\* '(only annotation)' gives [] and 'no annotation' gives ['no annotation'].
C8_CleanContract_AsStated ==
    /\ (fn \in Cleaners /\ ret # Idle) => ret.v = Segments(Remainder(arg.v))
    /\ \A f \in Cleaners :
        /\ ApplyCleaner(f, T_foo_bar_baz_qux) = <<T_foo, T_baz>>
        /\ ApplyCleaner(f, T_only_annotation) = <<>>
        /\ ApplyCleaner(f, T_no_annotation) = <<T_no_annotation>>

\* The same contract on raw terms whose annotations hold no line break
CleanContractOnOneLine ==
    (fn \in Cleaners /\ ret # Idle /\ ~Contains(arg.v, "\n")) =>
        ret.v = Segments(Remainder(arg.v))

\* The three examples of the contract
CleanExamples ==
    \A f \in Cleaners :
        /\ ApplyCleaner(f, T_foo_bar_baz_qux) = <<T_foo, T_baz>>
        /\ ApplyCleaner(f, T_only_annotation) = <<>>
        /\ ApplyCleaner(f, T_no_annotation) = <<T_no_annotation>>

-----------------------------------------------------------------------------
(* Specification of the filter predicate as a called function *)

S_n == <<"n">>
S_v == <<"v">>
S_N_f == <<"N", " ", "f">>
S_pad_n == <<" ", "n", " ">>
S_adj == <<"a", "d", "j">>
S_principal == <<"p", "r", "i", "n", "c", "i", "p", "a", "l">>
S_Principal == <<"P", "r", "i", "n", "c", "i", "p", "a", "l">>
S_equivalent == <<"e", "q", "u", "i", "v", "a", "l", "e", "n", "t">>
S_sigla == <<"s", "i", "g", "l", "a">>
S_Sigla_pad == <<"S", "i", "g", "l", "a", " ">>
S_n_comma_adj == <<"n", ",", " ", "a", "d", "j">>
S_blank == <<" ">>

\* Attribute values of a denomination
Categories == {<<>>, S_n, S_N_f, S_pad_n, S_v, S_adj}
Types == {<<>>, S_principal, S_Principal, S_equivalent}
Hierarchies == {<<>>, S_sigla, S_Sigla_pad}

\* Raw filter specifications, as free text and as argument lists
CategoryFilterTexts == {PyNone, PyStr(<<>>), PyStr(S_blank), PyStr(S_n), PyStr(S_v),
                        PyStr(S_n_comma_adj)}
TypeFilterTexts == {PyNone, PyStr(S_Principal), PyStr(S_equivalent)}
HierarchyFilterTexts == {PyNone, PyStr(S_sigla)}
CategoryFilterLists == {PyNone, PyList(<<S_blank>>), PyList(<<S_n>>), PyList(<<S_v>>),
                        PyList(<<S_n, S_adj>>)}
TypeFilterLists == {PyNone, PyList(<<S_Principal>>), PyList(<<S_equivalent>>)}
HierarchyFilterLists == {PyNone, PyList(<<S_sigla>>)}

NormalizerOf(f) ==
    CASE f \in {"TO2TBX.passes_filters", "TO2TBX"} -> "TO2TBX.normalize_filter_list"
      [] f \in {"TO2TBX-GUI.passes_filters", "TO2TBX-GUI"} -> "TO2TBX-GUI.normalize_filter_list"
      [] f \in {"TO2tabtxt-GUI.passes_filters", "TO2tabtxt-GUI"} ->
            "TO2tabtxt-GUI.normalize_filter_list"

RawCategoryFilters(f) ==
    IF NormalizerOf(f) = "TO2TBX.normalize_filter_list"
    THEN CategoryFilterLists ELSE CategoryFilterTexts
RawTypeFilters(f) ==
    IF NormalizerOf(f) = "TO2TBX.normalize_filter_list"
    THEN TypeFilterLists ELSE TypeFilterTexts
RawHierarchyFilters(f) ==
    IF NormalizerOf(f) = "TO2TBX.normalize_filter_list"
    THEN HierarchyFilterLists ELSE HierarchyFilterTexts

\* The filter sets a script can hold: what its normaliser returns
FilterSets(f, raws) == {ApplyNormalizer(NormalizerOf(f), raw) : raw \in raws}

InitFilters ==
    /\ fn \in FilterFns
    /\ arg \in [category : Categories, type : Types, hierarchy : Hierarchies,
                normalized_category_prefixes : FilterSets(fn, RawCategoryFilters(fn)),
                normalized_type_filters : FilterSets(fn, RawTypeFilters(fn)),
                normalized_jerarquia_filter : FilterSets(fn, RawHierarchyFilters(fn))]
    /\ ret = Idle
    /\ ret2 = Idle
    /\ PipeIdle

\* passes_filters(category, denomination_type, denomination_jerarquia, ...)
CallFilters ==
    /\ fn \in FilterFns
    /\ ret = Idle
    /\ ret' = [t |-> "bool",
               v |-> ApplyFilters(fn, arg.category, arg.type, arg.hierarchy,
                                  arg.normalized_category_prefixes,
                                  arg.normalized_type_filters,
                                  arg.normalized_jerarquia_filter)]
    /\ UNCHANGED <<fn, arg, ret2>>
    /\ UNCHANGED pipeVars

NextFilters == CallFilters

SpecFilters == InitFilters /\ [][NextFilters]_vars

Trimmed(attr) == Lower(Strip(attr))

CategoryAxisAccepts(category, filter) ==
    filter # PyNone =>
        /\ Trimmed(category) # <<>>
        /\ \E prefix \in filter.v : StartsWith(Trimmed(category), prefix)

ExactAxisAccepts(attr, filter) == filter # PyNone => Trimmed(attr) \in filter.v

\* C3: passes_filters is true iff every axis with a configured filter set
\* accepts: the category axis iff the trimmed, lowercased category is non-empty
\* and starts with a prefix of the set, the type and hierarchy axes iff the
\* trimmed, lowercased attribute is a member of the set; an axis without a set
\* accepts any value, so with all three absent every denomination passes.
C3_FilterConjunction ==
    (fn \in FilterFns /\ ret # Idle) =>
        /\ ret.v <=>
            /\ CategoryAxisAccepts(arg.category, arg.normalized_category_prefixes)
            /\ ExactAxisAccepts(arg.type, arg.normalized_type_filters)
            /\ ExactAxisAccepts(arg.hierarchy, arg.normalized_jerarquia_filter)
        /\ (/\ arg.normalized_category_prefixes = PyNone
            /\ arg.normalized_type_filters = PyNone
            /\ arg.normalized_jerarquia_filter = PyNone) => ret.v

\* C3 witness: with all three axes configured, a denomination with padded,
\* upper-case attributes was accepted
C3_Witness ==
    /\ fn \in FilterFns /\ ret # Idle /\ ret.v
    /\ arg.normalized_category_prefixes # PyNone
    /\ arg.normalized_type_filters # PyNone
    /\ arg.normalized_jerarquia_filter # PyNone
    /\ arg.category = S_N_f /\ arg.type = S_Principal /\ arg.hierarchy = S_Sigla_pad

-----------------------------------------------------------------------------
(* The converters as state machines *)

Say(kind) == log' = Append(log, kind)

CurrentEntry == root.fitxa[entry_count]

InputFailed == root.t \in {"FileNotFoundError", "ParseError"}

\* All orders in which the elements of a set can be iterated
Orderings(S) ==
    {f \in [1..Cardinality(S) -> S] : \A i, j \in 1..Cardinality(S) : f[i] = f[j] => i = j}

\* TO2TBX.py lines 86-133: language list, document, filters
TBX_Start ==
    /\ prog = "TO2TBX" /\ pc = "start"
    /\ LET normalized_languages == normalize_filter_list(cfg.languages)
       IN  IF ~Truthy(normalized_languages)
           THEN /\ pc' = "done"
                /\ log' = log \o <<"starting", "configuration error">>
                /\ UNCHANGED cfg
           ELSE IF InputFailed
           THEN /\ pc' = "done"
                /\ log' = log \o <<"starting", "input error">>
                /\ UNCHANGED cfg
           ELSE /\ pc' = "loop"
                /\ log' = log \o <<"starting", "loaded">>
                /\ \E order \in Orderings(normalized_languages.v) :
                     cfg' = [cfg EXCEPT
                        !.normalized_languages = normalized_languages,
                        !.language_order = order,
                        !.normalized_category_prefixes =
                            normalize_filter_list(cfg.category_starts),
                        !.normalized_type_filters = normalize_filter_list(cfg.type_filter),
                        !.normalized_jerarquia_filter =
                            normalize_filter_list(cfg.hierarchy_filter)]
    /\ UNCHANGED <<prog, entry_count, exported_entries, root, cur, body, output_file>>
    /\ UNCHANGED callVars

\* TO2TBX.py lines 138-158: the entry-level fields
TBX_BeginEntry ==
    /\ prog = "TO2TBX" /\ pc = "loop"
    /\ entry_count < Len(root.fitxa)
    /\ entry_count' = entry_count + 1
    /\ LET entry == root.fitxa[entry_count + 1]
       IN  cur' = NewEntry(EntryId(entry, entry_count + 1),
                           Strip(FindArea(entry, <<>>)),
                           DefinitionsLoop(entry.definicio, cfg.normalized_languages.v,
                                           NoDefinitions),
                           <<>>,
                           cfg.normalized_languages.v)
    /\ pc' = "denominations"
    /\ UNCHANGED <<prog, cfg, exported_entries, root, body, output_file, log>>
    /\ UNCHANGED callVars

\* TO2TBX.py lines 163-192
TBX_ReadDenomination ==
    /\ prog = "TO2TBX" /\ pc = "denominations"
    /\ cur.read < Len(CurrentEntry.denominacio)
    /\ cur' = TBX_Denomination(cfg, cur, CurrentEntry.denominacio[cur.read + 1])
    /\ UNCHANGED <<prog, pc, cfg, entry_count, exported_entries, root, body, output_file, log>>
    /\ UNCHANGED callVars

\* Mutation: the termEntry of an entry is put before those already built
TBX_EndEntry_Prepend ==
    /\ prog = "TO2TBX" /\ pc = "denominations"
    /\ cur.read = Len(CurrentEntry.denominacio)
    /\ IF ~cur.has_valid_term
       THEN /\ cur' = [cur EXCEPT !.stage = "skipped"]
            /\ UNCHANGED <<body, exported_entries>>
       ELSE /\ cur' = [cur EXCEPT !.stage = "exported",
                                  !.emitted = <<TBX_TermEntry(cfg, cur)>>]
            /\ body' = <<TBX_TermEntry(cfg, cur)>> \o body
            /\ exported_entries' = exported_entries + 1
    /\ pc' = "loop"
    /\ UNCHANGED <<prog, cfg, entry_count, root, output_file, log>>
    /\ UNCHANGED callVars

\* TO2TBX.py lines 194-247: the validity test and the termEntry
TBX_EndEntry ==
    /\ prog = "TO2TBX" /\ pc = "denominations"
    /\ cur.read = Len(CurrentEntry.denominacio)
    /\ IF ~cur.has_valid_term
       THEN /\ cur' = [cur EXCEPT !.stage = "skipped"]
            /\ UNCHANGED <<body, exported_entries>>
       ELSE /\ cur' = [cur EXCEPT !.stage = "exported",
                                  !.emitted = <<TBX_TermEntry(cfg, cur)>>]
            /\ body' = Append(body, TBX_TermEntry(cfg, cur))
            /\ exported_entries' = exported_entries + 1
    /\ pc' = "loop"
    /\ UNCHANGED <<prog, cfg, entry_count, root, output_file, log>>
    /\ UNCHANGED callVars

\* Mutation: a run that exports nothing is not flagged
Summary_NoWarning == <<"summary", "success">>

\* The messages of a completed run
Summary == <<"summary">> \o (IF exported_entries = 0 THEN <<"warning">> ELSE <<>>)
           \o <<"success">>

\* Mutation: the summary follows the output error
TBX_Finish_SummaryAnyway ==
    /\ prog = "TO2TBX" /\ pc = "loop"
    /\ entry_count = Len(root.fitxa)
    /\ \E writable \in BOOLEAN :
         IF writable
         THEN output_file' = "written" /\ log' = log \o Summary
         ELSE output_file' = "failed" /\ log' = log \o <<"output error">> \o Summary
    /\ pc' = "done"
    /\ UNCHANGED <<prog, cfg, entry_count, exported_entries, root, cur, body>>
    /\ UNCHANGED callVars

\* TO2TBX.py lines 250-272: the file is written, then the summary
TBX_Finish ==
    /\ prog = "TO2TBX" /\ pc = "loop"
    /\ entry_count = Len(root.fitxa)
    /\ \E writable \in BOOLEAN :
         IF writable
         THEN output_file' = "written" /\ log' = log \o Summary
         ELSE output_file' = "failed" /\ Say("output error")
    /\ pc' = "done"
    /\ UNCHANGED <<prog, cfg, entry_count, exported_entries, root, cur, body>>
    /\ UNCHANGED callVars

\* TO2TBX-GUI.py lines 82-122: document, filters
GUI_Start ==
    /\ prog = "TO2TBX-GUI" /\ pc = "start"
    /\ IF InputFailed
       THEN /\ pc' = "done"
            /\ log' = log \o <<"starting", "input error">>
            /\ UNCHANGED cfg
       ELSE /\ pc' = "loop"
            /\ log' = log \o <<"starting", "loaded">>
            /\ cfg' = [cfg EXCEPT
                    !.normalized_category_prefixes =
                        normalize_filter_list_GUI(cfg.category_starts),
                    !.normalized_type_filters = normalize_filter_list_GUI(cfg.type_filter),
                    !.normalized_jerarquia_filter =
                        normalize_filter_list_GUI(cfg.hierarchy_filter)]
    /\ UNCHANGED <<prog, entry_count, exported_entries, root, cur, body, output_file>>
    /\ UNCHANGED callVars

\* TO2TBX-GUI.py lines 127-144: the entry-level fields
GUI_BeginEntry ==
    /\ prog = "TO2TBX-GUI" /\ pc = "loop"
    /\ entry_count < Len(root.fitxa)
    /\ entry_count' = entry_count + 1
    /\ LET entry == root.fitxa[entry_count + 1]
       IN  cur' = NewEntry(EntryId(entry, entry_count + 1),
                           Strip(FindArea(entry, <<>>)),
                           DefinitionsLoop(entry.definicio, {cfg.sl, cfg.tl}, NoDefinitions),
                           <<>>,
                           {cfg.sl, cfg.tl})
    /\ pc' = "denominations"
    /\ UNCHANGED <<prog, cfg, exported_entries, root, body, output_file, log>>
    /\ UNCHANGED callVars

\* TO2TBX-GUI.py lines 146-175
GUI_ReadDenomination ==
    /\ prog = "TO2TBX-GUI" /\ pc = "denominations"
    /\ cur.read < Len(CurrentEntry.denominacio)
    /\ cur' = GUI_Denomination(cfg, cur, CurrentEntry.denominacio[cur.read + 1])
    /\ UNCHANGED <<prog, pc, cfg, entry_count, exported_entries, root, body, output_file, log>>
    /\ UNCHANGED callVars

\* TO2TBX-GUI.py lines 177-222: the validity test and the termEntry
GUI_EndEntry ==
    /\ prog = "TO2TBX-GUI" /\ pc = "denominations"
    /\ cur.read = Len(CurrentEntry.denominacio)
    /\ IF GUI_Skipped(cfg, cur)
       THEN /\ cur' = [cur EXCEPT !.stage = "skipped"]
            /\ UNCHANGED <<body, exported_entries>>
       ELSE /\ cur' = [cur EXCEPT !.stage = "exported",
                                  !.emitted = <<GUI_TermEntry(cfg, cur)>>]
            /\ body' = Append(body, GUI_TermEntry(cfg, cur))
            /\ exported_entries' = exported_entries + 1
    /\ pc' = "loop"
    /\ UNCHANGED <<prog, cfg, entry_count, root, output_file, log>>
    /\ UNCHANGED callVars

\* TO2TBX-GUI.py lines 225-248: the file is written, then the summary
GUI_Finish ==
    /\ prog = "TO2TBX-GUI" /\ pc = "loop"
    /\ entry_count = Len(root.fitxa)
    /\ \E writable \in BOOLEAN :
         IF writable
         THEN output_file' = "written" /\ log' = log \o Summary
         ELSE output_file' = "failed" /\ Say("output error")
    /\ pc' = "done"
    /\ UNCHANGED <<prog, cfg, entry_count, exported_entries, root, cur, body>>
    /\ UNCHANGED callVars

\* TO2tabtxt-GUI.py lines 89-131: arguments, document, filters, output file
tabtxt_Start ==
    /\ prog = "TO2tabtxt-GUI" /\ pc = "start"
    /\ IF cfg.sl = <<>> \/ cfg.tl = <<>>
       THEN /\ pc' = "done"
            /\ log' = log \o <<"starting", "configuration error">>
            /\ UNCHANGED <<cfg, output_file>>
       ELSE IF InputFailed
       THEN /\ pc' = "done"
            /\ log' = log \o <<"starting", "input error">>
            /\ UNCHANGED <<cfg, output_file>>
       ELSE /\ cfg' = [cfg EXCEPT
                    !.normalized_category_prefixes =
                        normalize_filter_list_tabtxt(cfg.category_starts),
                    !.normalized_type_filters =
                        normalize_filter_list_tabtxt(cfg.type_filter),
                    !.normalized_jerarquia_filter =
                        normalize_filter_list_tabtxt(cfg.hierarchy_filter)]
            /\ \E writable \in BOOLEAN :
                 IF writable
                 THEN /\ output_file' = "open"
                      /\ pc' = "loop"
                      /\ log' = log \o <<"starting", "loaded">>
                 ELSE /\ output_file' = "failed"
                      /\ pc' = "done"
                      /\ log' = log \o <<"starting", "loaded", "output error">>
    /\ UNCHANGED <<prog, entry_count, exported_entries, root, cur, body>>
    /\ UNCHANGED callVars

\* TO2tabtxt-GUI.py lines 135-152: the entry-level fields
tabtxt_BeginEntry ==
    /\ prog = "TO2tabtxt-GUI" /\ pc = "loop"
    /\ entry_count < Len(root.fitxa)
    /\ entry_count' = entry_count + 1
    /\ LET entry == root.fitxa[entry_count + 1]
       IN  cur' = NewEntry(EntryId(entry, entry_count + 1),
                           ReplaceNewlines(Strip(FindArea(entry, <<>>))),
                           NoDefinitions,
                           IF cfg.include_definition
                           THEN tabtxt_DefinitionSL(entry.definicio, cfg.sl) ELSE <<>>,
                           {cfg.sl, cfg.tl})
    /\ pc' = "denominations"
    /\ UNCHANGED <<prog, cfg, exported_entries, root, body, output_file, log>>
    /\ UNCHANGED callVars

\* TO2tabtxt-GUI.py lines 155-183
tabtxt_ReadDenomination ==
    /\ prog = "TO2tabtxt-GUI" /\ pc = "denominations"
    /\ cur.read < Len(CurrentEntry.denominacio)
    /\ cur' = tabtxt_Denomination(cfg, cur, CurrentEntry.denominacio[cur.read + 1])
    /\ UNCHANGED <<prog, pc, cfg, entry_count, exported_entries, root, body, output_file, log>>
    /\ UNCHANGED callVars

\* TO2tabtxt-GUI.py lines 185-217: the rows of the entry are written
\* (exported_entries stands for exported_rows)
tabtxt_EndEntry ==
    /\ prog = "TO2tabtxt-GUI" /\ pc = "denominations"
    /\ cur.read = Len(CurrentEntry.denominacio)
    /\ IF TermsOfLang(cur.filtered_denominations, cfg.sl) = <<>>
       THEN /\ cur' = [cur EXCEPT !.stage = "skipped"]
            /\ UNCHANGED <<body, exported_entries>>
       ELSE /\ cur' = [cur EXCEPT !.stage = "exported", !.emitted = tabtxt_Rows(cfg, cur)]
            /\ body' = body \o tabtxt_Rows(cfg, cur)
            /\ exported_entries' = exported_entries + Len(tabtxt_Rows(cfg, cur))
    /\ pc' = "loop"
    /\ UNCHANGED <<prog, cfg, entry_count, root, output_file, log>>
    /\ UNCHANGED callVars

\* TO2tabtxt-GUI.py lines 226-236: the file is closed, then the summary
tabtxt_Finish ==
    /\ prog = "TO2tabtxt-GUI" /\ pc = "loop"
    /\ entry_count = Len(root.fitxa)
    /\ output_file' = "written"
    /\ log' = log \o Summary
    /\ pc' = "done"
    /\ UNCHANGED <<prog, cfg, entry_count, exported_entries, root, cur, body>>
    /\ UNCHANGED callVars

\* TO2TBX-GUI.py lines 429-459: the form's values are checked and normalised
GUI_RunConversion ==
    /\ prog = "TO2TBX-GUI" /\ pc = "form"
    /\ IF cfg.sl_code = <<>> \/ cfg.tl_code = <<>>
       THEN /\ pc' = "done"
            /\ Say("configuration error")
            /\ UNCHANGED cfg
       ELSE /\ pc' = "start"
            /\ cfg' = [cfg EXCEPT !.sl = Lower(Strip(cfg.sl_code)),
                                  !.tl = Lower(Strip(cfg.tl_code))]
            /\ UNCHANGED log
    /\ UNCHANGED <<prog, entry_count, exported_entries, root, cur, body, output_file>>
    /\ UNCHANGED callVars

\* TO2tabtxt-GUI.py lines 436-467: the form's values are checked and normalised
tabtxt_RunConversion ==
    /\ prog = "TO2tabtxt-GUI" /\ pc = "form"
    /\ IF cfg.sl_code = <<>> \/ cfg.tl_code = <<>>
       THEN /\ pc' = "done"
            /\ Say("configuration error")
            /\ UNCHANGED cfg
       ELSE /\ pc' = "start"
            /\ cfg' = [cfg EXCEPT !.sl = Lower(Strip(cfg.sl_code)),
                                  !.tl = Lower(Strip(cfg.tl_code))]
            /\ UNCHANGED log
    /\ UNCHANGED <<prog, entry_count, exported_entries, root, cur, body, output_file>>
    /\ UNCHANGED callVars

\* TO2tabtxt.py lines 93-114: document, filters. Line 113 reads
\* jerarquia_filters, a name that is not bound: with a type filter the
\* conditional expression evaluates it and the script ends with NameError.
\* Mutation: the run reports success after an input error
cli_Start_ErrorThenSuccess ==
    /\ prog = "TO2tabtxt" /\ pc = "start"
    /\ IF InputFailed
       THEN /\ pc' = "done"
            /\ log' = log \o <<"input error", "success">>
            /\ UNCHANGED cfg
       ELSE IF Truthy(cfg.type_filter)
       THEN /\ pc' = "done"
            /\ Say("NameError")
            /\ cfg' = [cfg EXCEPT
                    !.normalized_type_filters = cli_NormalizedSet(cfg.type_filter)]
       ELSE /\ pc' = "loop"
            /\ UNCHANGED log
            /\ cfg' = [cfg EXCEPT
                    !.normalized_type_filters = cli_NormalizedSet(cfg.type_filter),
                    !.normalized_jerarquia_filter = PyNone,
                    !.normalized_category_prefixes =
                        cli_NormalizedSet(cfg.category_starts)]
    /\ UNCHANGED <<prog, entry_count, exported_entries, root, cur, body, output_file>>
    /\ UNCHANGED callVars

cli_Start ==
    /\ prog = "TO2tabtxt" /\ pc = "start"
    /\ IF InputFailed
       THEN /\ pc' = "done"
            /\ Say("input error")
            /\ UNCHANGED cfg
       ELSE IF Truthy(cfg.type_filter)
       THEN /\ pc' = "done"
            /\ Say("NameError")
            /\ cfg' = [cfg EXCEPT
                    !.normalized_type_filters = cli_NormalizedSet(cfg.type_filter)]
       ELSE /\ pc' = "loop"
            /\ UNCHANGED log
            /\ cfg' = [cfg EXCEPT
                    !.normalized_type_filters = cli_NormalizedSet(cfg.type_filter),
                    !.normalized_jerarquia_filter = PyNone,
                    !.normalized_category_prefixes =
                        cli_NormalizedSet(cfg.category_starts)]
    /\ UNCHANGED <<prog, entry_count, exported_entries, root, cur, body, output_file>>
    /\ UNCHANGED callVars

\* TO2tabtxt.py lines 117-124 (entry_count stands for the position of the
\* loop over the entries)
cli_BeginEntry ==
    /\ prog = "TO2tabtxt" /\ pc = "loop"
    /\ entry_count < Len(root.fitxa)
    /\ entry_count' = entry_count + 1
    /\ cur' = cli_NewEntry(Strip(FindArea(root.fitxa[entry_count + 1], N_A)))
    /\ pc' = "denominations"
    /\ UNCHANGED <<prog, cfg, exported_entries, root, body, output_file, log>>
    /\ UNCHANGED callVars

\* TO2tabtxt.py lines 126-155
cli_ReadDenomination ==
    /\ prog = "TO2tabtxt" /\ pc = "denominations"
    /\ cur.read < Len(CurrentEntry.denominacio)
    /\ cur' = cli_Denomination(cfg, cur, CurrentEntry.denominacio[cur.read + 1])
    /\ IF cur'.stage = "crashed"
       THEN pc' = "done" /\ Say("NameError")
       ELSE UNCHANGED <<pc, log>>
    /\ UNCHANGED <<prog, cfg, entry_count, exported_entries, root, body, output_file>>
    /\ UNCHANGED callVars

\* TO2tabtxt.py lines 157-216: the rows of the entry are added to tsv_content
\* (body stands for tsv_content)
cli_EndEntry ==
    /\ prog = "TO2tabtxt" /\ pc = "denominations"
    /\ cur.read = Len(CurrentEntry.denominacio)
    /\ IF cur.terms_sl_data = <<>>
       THEN /\ cur' = [cur EXCEPT !.stage = "skipped"]
            /\ UNCHANGED body
       ELSE LET rows == cli_Rows(cfg, cur, cli_DefinitionsSL(cfg, CurrentEntry.definicio))
            IN  /\ cur' = [cur EXCEPT !.stage = "exported", !.emitted = rows]
                /\ body' = body \o rows
    /\ pc' = "loop"
    /\ UNCHANGED <<prog, cfg, entry_count, exported_entries, root, output_file, log>>
    /\ UNCHANGED callVars

\* TO2tabtxt.py lines 218-241: the file is written, then the messages
cli_Finish ==
    /\ prog = "TO2tabtxt" /\ pc = "loop"
    /\ entry_count = Len(root.fitxa)
    /\ \E writable \in BOOLEAN :
         IF writable
         THEN output_file' = "written" /\ log' = log \o <<"success", "settings">>
         ELSE output_file' = "failed" /\ Say("output error")
    /\ pc' = "done"
    /\ UNCHANGED <<prog, cfg, entry_count, exported_entries, root, cur, body>>
    /\ UNCHANGED callVars

Next ==
    \/ TBX_Start \/ TBX_BeginEntry \/ TBX_ReadDenomination \/ TBX_EndEntry \/ TBX_Finish
    \/ GUI_Start \/ GUI_BeginEntry \/ GUI_ReadDenomination \/ GUI_EndEntry \/ GUI_Finish
    \/ tabtxt_Start \/ tabtxt_BeginEntry \/ tabtxt_ReadDenomination \/ tabtxt_EndEntry
    \/ tabtxt_Finish
    \/ GUI_RunConversion \/ tabtxt_RunConversion
    \/ cli_Start \/ cli_BeginEntry \/ cli_ReadDenomination \/ cli_EndEntry \/ cli_Finish

-----------------------------------------------------------------------------
(* The runs that are explored: arguments and documents *)

L_ca == <<"c", "a">>
L_es == <<"e", "s">>
L_en == <<"e", "n">>
L_CA_pad == <<" ", "C", "A">>

T_gos == <<"g", "o", "s">>
T_gos_pad == <<" ", "g", "o", "s", " ">>
T_perro == <<"p", "e", "r", "r", "o">>
T_gat == <<"g", "a", "t">>
T_dog == <<"d", "o", "g">>
T_ca == <<"c", "a">>
T_nota == <<"(", "n", "o", "t", "a", ")">>
T_gos_ca == <<"g", "o", "s", " ", "|", " ", "c", "a", " ", "[", "x", "]">>

Denomination(llengua, text, categoria, tipus, jerarquia) ==
    [llengua |-> llengua, text |-> text, categoria |-> categoria, tipus |-> tipus,
     jerarquia |-> jerarquia]

D_gos == Denomination(L_ca, T_gos, S_n, S_principal, <<>>)
D_perro == Denomination(L_es, T_perro, <<>>, <<>>, <<>>)
D_nota == Denomination(L_ca, T_nota, S_n, S_principal, <<>>)
D_car_auto == Denomination(L_es, T_car_auto, S_N_f, S_Principal, S_sigla)
D_gat == Denomination(L_ca, T_gat, S_v, <<>>, <<>>)
D_dog == Denomination(L_en, T_dog, S_n, S_principal, <<>>)
D_gos_pad == Denomination(L_CA_pad, T_gos_pad, S_pad_n, <<>>, <<>>)
D_blank == Denomination(L_ca, S_blank, S_n, S_principal, <<>>)
D_perro_v == Denomination(L_es, T_perro, S_v, S_equivalent, <<>>)
D_gos_ca == Denomination(L_ca, T_gos_ca, S_n, S_principal, S_sigla)

Denominations == {D_gos, D_perro, D_nota, D_car_auto, D_gat, D_dog, D_gos_pad, D_blank,
                  D_perro_v, D_gos_ca}

X_def_ca == <<"d", "e", "f", " ", "c", "a">>
X_def_es == <<"d", "e", "f", " ", "e", "s">>
X_zoo == <<" ", "z", "o", "o">>
X_7 == <<"7">>
X_e2 == <<"e", "2">>
X_def_2 == <<"d", "e", "f", " ", "2">>

Definition(llengua, text) == [llengua |-> llengua, text |-> text]

Fitxa(num, areatematica, definicio, denominacio) ==
    [num |-> num, areatematica |-> areatematica, definicio |-> definicio,
     denominacio |-> denominacio]

SeqsUpTo(S, n) == UNION {[1..k -> S] : k \in 0..n}

\* One-entry documents: every sequence of denominations, bare or with an
\* identifier, an area and definitions
DetailedEntries ==
    {Fitxa(PyNone, PyNone, <<>>, ds) : ds \in SeqsUpTo(Denominations, MaxDenominations)}
    \cup
    {Fitxa(PyStr(X_7), PyStr(X_zoo),
           <<Definition(L_ca, X_def_ca), Definition(L_es, X_def_es)>>, ds) :
        ds \in SeqsUpTo(Denominations, MaxDenominations)}

\* Documents of several entries, with and without identifiers
SimpleEntries ==
    {Fitxa(PyNone, PyNone, <<>>, <<D_gos>>),
     Fitxa(PyStr(X_e2), PyNone, <<>>, <<D_gat>>),
     Fitxa(PyStr(X_7), PyStr(X_zoo), <<>>, <<D_gos, D_perro>>),
     Fitxa(PyNone, PyNone,
           <<Definition(L_ca, X_def_ca), Definition(L_ca, X_def_2),
             Definition(L_es, X_def_es)>>,
           <<D_gos_ca, D_perro>>)}

Tree(fitxa) == [t |-> "tree", fitxa |-> fitxa]

Documents ==
    {Tree(<<e>>) : e \in DetailedEntries}
    \cup {Tree(es) : es \in SeqsUpTo(SimpleEntries, MaxEntries)}
    \cup {[t |-> "FileNotFoundError"], [t |-> "ParseError"]}

Flags(b) == [include_area |-> b, include_definition |-> b, include_category |-> b,
             include_type |-> b, include_hierarchy |-> b]

\* Filter arguments as (category, type, hierarchy) triples of raw values
TextFilterArgs ==
    {<<PyStr(<<>>), PyStr(<<>>), PyStr(<<>>)>>,
     <<PyStr(S_n), PyStr(<<>>), PyStr(<<>>)>>,
     <<PyStr(S_v), PyStr(<<>>), PyStr(<<>>)>>,
     <<PyStr(<<>>), PyStr(S_Principal), PyStr(<<>>)>>,
     <<PyStr(S_n_comma_adj), PyStr(<<>>), PyStr(S_sigla)>>}
ListFilterArgs ==
    {<<PyNone, PyNone, PyNone>>,
     <<PyList(<<S_n>>), PyNone, PyNone>>,
     <<PyList(<<S_v>>), PyNone, PyNone>>,
     <<PyNone, PyList(<<S_Principal>>), PyNone>>,
     <<PyList(<<S_n, S_adj>>), PyNone, PyList(<<S_sigla>>)>>}

\* The filters given to TO2tabtxt.py, one of them a hierarchy filter that no
\* denomination of the documents matches
S_sin == <<"s", "i", "n">>
CommandLineFilterArgs == ListFilterArgs \cup {<<PyNone, PyNone, PyList(<<S_sin>>)>>}

LanguageLists == {PyList(<<L_ca>>), PyList(<<L_CA_pad, L_es>>), PyList(<<S_blank>>)}
LanguagePairs == {<<L_ca, L_es>>, <<L_ca, L_ca>>}

\* Language codes as typed into the form of a graphical converter
FormPairs == LanguagePairs \cup {<<S_blank, L_es>>, <<<<>>, L_es>>, <<S_blank, S_blank>>}

Args(languages, sl, tl, filters, flags) ==
    [languages |-> languages, sl |-> sl, tl |-> tl, sl_code |-> sl, tl_code |-> tl,
     category_starts |-> filters[1], type_filter |-> filters[2],
     hierarchy_filter |-> filters[3],
     include_area |-> flags.include_area,
     include_definition |-> flags.include_definition,
     include_category |-> flags.include_category,
     include_type |-> flags.include_type,
     include_hierarchy |-> flags.include_hierarchy,
     normalized_languages |-> Idle, language_order |-> <<>>,
     normalized_category_prefixes |-> Idle, normalized_type_filters |-> Idle,
     normalized_jerarquia_filter |-> Idle]

Programs == {"TO2TBX", "TO2TBX-GUI", "TO2tabtxt-GUI", "TO2tabtxt"}

GraphicalPrograms == {"TO2TBX-GUI", "TO2tabtxt-GUI"}

Calls(p) ==
    IF p = "TO2TBX"
    THEN {Args(ls, <<>>, <<>>, f, Flags(b)) :
            ls \in LanguageLists, f \in ListFilterArgs, b \in BOOLEAN}
    ELSE IF p = "TO2tabtxt"
    THEN {Args(PyNone, pair[1], pair[2], f, Flags(b)) :
            pair \in LanguagePairs, f \in CommandLineFilterArgs, b \in BOOLEAN}
    ELSE {Args(PyNone, pair[1], pair[2], f, Flags(b)) :
            pair \in FormPairs, f \in TextFilterArgs, b \in BOOLEAN}

Init ==
    /\ prog \in Programs
    /\ pc = IF prog \in GraphicalPrograms THEN "form" ELSE "start"
    /\ cfg \in Calls(prog)
    /\ root \in Documents
    /\ entry_count = 0
    /\ exported_entries = 0
    /\ cur = Idle
    /\ body = <<>>
    /\ output_file = "untouched"
    /\ log = <<>>
    /\ fn = "none" /\ arg = Idle /\ ret = Idle /\ ret2 = Idle

Spec == Init /\ [][Next]_vars

-----------------------------------------------------------------------------
(* The tabular converters on texts with line breaks, tabs and quotation marks *)

\* csv.writer with a tab delimiter and minimal quoting: a field is written between
\* quotation marks when it holds the delimiter, the quote character or a line break
csv_NeedsQuote(field) ==
    \E i \in 1..Len(field) : field[i] \in {"\t", "\"", "\n", "\r"}

T_gos_d_atura == <<"g", "o", "s", "\n", "d">>
T_a_tab_b == <<"a", "\t", "b">>
T_quoted == <<"\"", "a", "\"">>
X_zoo_botany == <<"z", "o", "o", "\n", "b">>
X_def_lines == <<"d", "e", "f", "\n", "2">>
X_def_tab == <<"d", "e", "f", "\t", "2">>

SpecialDenominations ==
    {Denomination(L_ca, T_gos_d_atura, S_n, S_principal, <<>>),
     Denomination(L_ca, T_gos, S_n, S_principal, <<>>),
     Denomination(L_es, T_a_tab_b, S_n, <<>>, <<>>),
     Denomination(L_es, T_quoted, <<>>, <<>>, <<>>),
     Denomination(L_es, T_perro, <<>>, <<>>, <<>>)}

SpecialEntries ==
    {Fitxa(PyNone, area, definicio, ds) :
        area \in {PyNone, PyStr(X_zoo), PyStr(X_zoo_botany)},
        definicio \in {<<>>, <<Definition(L_ca, X_def_lines)>>, <<Definition(L_ca, X_def_tab)>>},
        ds \in SeqsUpTo(SpecialDenominations, MaxDenominations)}

InitTabular ==
    /\ prog \in {"TO2tabtxt-GUI", "TO2tabtxt"}
    /\ pc = IF prog \in GraphicalPrograms THEN "form" ELSE "start"
    /\ cfg \in {Args(PyNone, L_ca, L_es,
                     IF prog \in GraphicalPrograms
                     THEN <<PyStr(<<>>), PyStr(<<>>), PyStr(<<>>)>>
                     ELSE <<PyNone, PyNone, PyNone>>,
                     Flags(b)) : b \in BOOLEAN}
    /\ root \in {Tree(<<e>>) : e \in SpecialEntries}
    /\ entry_count = 0
    /\ exported_entries = 0
    /\ cur = Idle
    /\ body = <<>>
    /\ output_file = "untouched"
    /\ log = <<>>
    /\ fn = "none" /\ arg = Idle /\ ret = Idle /\ ret2 = Idle

NextTabular ==
    \/ tabtxt_RunConversion
    \/ tabtxt_Start \/ tabtxt_BeginEntry \/ tabtxt_ReadDenomination \/ tabtxt_EndEntry
    \/ tabtxt_Finish
    \/ cli_Start \/ cli_BeginEntry \/ cli_ReadDenomination \/ cli_EndEntry \/ cli_Finish

SpecTabular == InitTabular /\ [][NextTabular]_vars

-----------------------------------------------------------------------------
(* Properties of the converters *)

LanguageOf(d) == Lower(Strip(d.llengua))

\* Every configured filter axis accepts the attributes of a denomination
AxesAccept(d) ==
    /\ CategoryAxisAccepts(d.categoria, cfg.normalized_category_prefixes)
    /\ ExactAxisAccepts(d.tipus, cfg.normalized_type_filters)
    /\ ExactAxisAccepts(d.jerarquia, cfg.normalized_jerarquia_filter)

\* The terms the running script's cleaner gives for a denomination
CleanedTerms(d) ==
    CASE prog = "TO2TBX" -> clean_and_split_term(Strip(d.text))
      [] prog = "TO2TBX-GUI" -> clean_and_split_term_GUI(Strip(d.text))
      [] prog = "TO2tabtxt-GUI" -> clean_and_split_term_tabtxt(Strip(d.text))

\* The cleaned terms of a denomination, each with the denomination's attributes
Attributed(d) ==
    [i \in 1..Len(CleanedTerms(d)) |->
        [term |-> CleanedTerms(d)[i], category |-> Strip(d.categoria),
         type |-> Strip(d.tipus), hierarchy |-> Strip(d.jerarquia)]]

SourceTargetMode == prog \in {"TO2TBX-GUI", "TO2tabtxt-GUI"}

\* The entry's denominations have all been read and the entry was exported
\* or skipped
Settled == cur # Idle /\ cur.stage # "reading"

\* The source-language term list of the entry being processed
SourceTerms ==
    IF prog = "TO2tabtxt-GUI" THEN TermsOfLang(cur.filtered_denominations, cfg.sl)
    ELSE cur.denominations_by_lang[cfg.sl]

QualifiesAsSource(d) ==
    /\ LanguageOf(d) = cfg.sl
    /\ Strip(d.text) # <<>>
    /\ AxesAccept(d)
    /\ CleanedTerms(d) # <<>>

\* The terms of the langSet of a language in a termEntry
TermsIn(termEntry, lang) ==
    LET at == {i \in 1..Len(termEntry.langSets) : termEntry.langSets[i].lang = lang}
    IN  IF at = {} THEN <<>>
        ELSE LET tigs == termEntry.langSets[CHOOSE i \in at : TRUE].tigs
             IN  [k \in 1..Len(tigs) |-> tigs[k].term]

\* C1: in source/target mode (TO2TBX-GUI.py, TO2tabtxt-GUI.py) an entry is
\* exported only if some source-language denomination passed all active
\* filters and yielded at least one cleaned term; an entry whose
\* source-language term list is empty after filtering and cleaning is skipped
\* and adds no termEntry and no row to the output.
C1_SourceTermRequired ==
    /\ [](SourceTargetMode /\ Settled =>
            /\ cur.stage = "exported" =>
                 \E i \in 1..Len(CurrentEntry.denominacio) :
                    QualifiesAsSource(CurrentEntry.denominacio[i])
            /\ SourceTerms = <<>> => cur.stage = "skipped" /\ cur.emitted = <<>>)
    /\ [][(/\ SourceTargetMode
           /\ pc = "denominations" /\ pc' = "loop"
           /\ SourceTerms = <<>>) =>
            body' = body /\ exported_entries' = exported_entries]_vars

\* C1 witness: under a category filter, the tabular converter has exported
\* the row of a first entry and skipped a second entry whose only
\* source-language denomination failed the filter
C1_Witness ==
    /\ prog = "TO2tabtxt-GUI" /\ Settled
    /\ cfg.normalized_category_prefixes # PyNone
    /\ entry_count = 2 /\ Len(body) = 1
    /\ cur.stage = "skipped"
    /\ \E i \in 1..Len(CurrentEntry.denominacio) :
         /\ LanguageOf(CurrentEntry.denominacio[i]) = cfg.sl
         /\ ~AxesAccept(CurrentEntry.denominacio[i])

\* C2: in language-list mode (TO2TBX.py) every exported termEntry contains at
\* least one term in at least one requested language, also when the only
\* filter-passing denominations consist solely of a bracketed annotation.
C2_ExportedEntryHasTerm_AsStated ==
    prog = "TO2TBX" =>
        \A k \in 1..Len(body) :
            \E i \in 1..Len(body[k].langSets) : body[k].langSets[i].tigs # <<>>

\* C4 as stated: in TO2TBX-GUI.py a target-language denomination that fails
\* an active filter axis contributes no term to the target-language list of
\* the exported entry.
C4_TargetDropped_AsStated ==
    (prog = "TO2TBX-GUI" /\ Settled /\ cur.stage = "exported") =>
        \A i \in 1..Len(CurrentEntry.denominacio) :
            LET d == CurrentEntry.denominacio[i]
            IN  (LanguageOf(d) = cfg.tl /\ ~AxesAccept(d)) =>
                    \A k \in 1..Len(Attributed(d)) :
                        \A m \in 1..Len(cur.denominations_by_lang[cfg.tl]) :
                            cur.denominations_by_lang[cfg.tl][m] # Attributed(d)[k]

\* C4 amended: in TO2TBX-GUI.py the filters are applied to source-language
\* denominations only. A denomination in a target language other than the
\* source language is never dropped by a filter: when its text is not blank,
\* all its cleaned terms, with its attributes, are in the target-language list
\* and among the terms of the exported termEntry. It does not decide the
\* export either: the entry is exported exactly when a source-language
\* denomination passes all active filters and yields a cleaned term.
C4_TargetUnfiltered_Amended ==
    (prog = "TO2TBX-GUI" /\ Settled) =>
        /\ \A i \in 1..Len(CurrentEntry.denominacio) :
            LET d == CurrentEntry.denominacio[i]
            IN  (LanguageOf(d) = cfg.tl /\ cfg.tl # cfg.sl /\ Strip(d.text) # <<>>) =>
                    \A k \in 1..Len(Attributed(d)) :
                        /\ \E m \in 1..Len(cur.denominations_by_lang[cfg.tl]) :
                             cur.denominations_by_lang[cfg.tl][m] = Attributed(d)[k]
                        /\ cur.stage = "exported" =>
                             \E m \in 1..Len(TermsIn(cur.emitted[1], cfg.tl)) :
                                TermsIn(cur.emitted[1], cfg.tl)[m] = Attributed(d)[k].term
        /\ cur.stage = "exported" <=>
             \E i \in 1..Len(CurrentEntry.denominacio) :
                QualifiesAsSource(CurrentEntry.denominacio[i])

\* C4 witness: an exported entry whose target-language list holds the term of
\* a target-language denomination that fails an active filter
C4_Witness ==
    /\ prog = "TO2TBX-GUI" /\ Settled /\ cur.stage = "exported"
    /\ cfg.tl # cfg.sl
    /\ \E i \in 1..Len(CurrentEntry.denominacio) :
         LET d == CurrentEntry.denominacio[i]
         IN  /\ LanguageOf(d) = cfg.tl /\ ~AxesAccept(d)
             /\ Attributed(d) # <<>>
             /\ TermsIn(cur.emitted[1], cfg.tl) # <<>>

\* The scenario of C5: one entry with ca 'gos' (category n, type principal)
\* and es 'perro' (no category), category filter {n}, languages ca and es
C5_Scenario ==
    /\ prog \in {"TO2TBX", "TO2TBX-GUI", "TO2tabtxt-GUI"}
    /\ root.t = "tree" /\ Len(root.fitxa) = 1
    /\ root.fitxa[1].denominacio = <<D_gos, D_perro>>
    /\ pc = "done" /\ output_file = "written"
    /\ cfg.normalized_category_prefixes = PySet({S_n})
    /\ cfg.normalized_type_filters = PyNone
    /\ cfg.normalized_jerarquia_filter = PyNone
    /\ IF prog = "TO2TBX" THEN cfg.normalized_languages = PySet({L_ca, L_es})
       ELSE cfg.sl = L_ca /\ cfg.tl = L_es

\* C5 as stated: in the scenario exactly one entry is exported and it carries
\* the ca term 'gos' together with the es term 'perro'.
C5_GosPerro_AsStated ==
    C5_Scenario =>
        /\ Len(body) = 1
        /\ IF prog = "TO2tabtxt-GUI"
           THEN body[1][1] = T_gos /\ body[1][2] = T_perro
           ELSE TermsIn(body[1], L_ca) = <<T_gos>> /\ TermsIn(body[1], L_es) = <<T_perro>>

\* C5, per script: TO2TBX-GUI.py exports 'gos' with 'perro'; TO2tabtxt-GUI.py
\* and TO2TBX.py export 'gos' without a target term
C5_GosPerro_PerScript ==
    C5_Scenario =>
        /\ Len(body) = 1
        /\ CASE prog = "TO2TBX-GUI" ->
                  TermsIn(body[1], L_ca) = <<T_gos>> /\ TermsIn(body[1], L_es) = <<T_perro>>
             [] prog = "TO2TBX" ->
                  TermsIn(body[1], L_ca) = <<T_gos>> /\ TermsIn(body[1], L_es) = <<>>
             [] prog = "TO2tabtxt-GUI" ->
                  body[1][1] = T_gos /\ body[1][2] = <<>>

\* A term with text, without surrounding whitespace and without separator
CleanTerm(t) ==
    /\ t # <<>>
    /\ ~IsSpace(t[1]) /\ ~IsSpace(t[Len(t)])
    /\ \A i \in 1..Len(t) : t[i] # "|"

Kept(d) ==
    /\ Strip(d.text) # <<>>
    /\ CASE prog = "TO2TBX" ->
              LanguageOf(d) \in cfg.normalized_languages.v /\ AxesAccept(d)
         [] prog = "TO2TBX-GUI" ->
              /\ LanguageOf(d) \in {cfg.sl, cfg.tl}
              /\ LanguageOf(d) = cfg.sl => AxesAccept(d)
         [] prog = "TO2tabtxt-GUI" ->
              LanguageOf(d) \in {cfg.sl, cfg.tl} /\ AxesAccept(d)

\* The terms of the kept denominations of a language, in document order
RECURSIVE Appended(_, _)
Appended(ds, lang) ==
    IF ds = <<>> THEN <<>>
    ELSE (IF Kept(Head(ds)) /\ LanguageOf(Head(ds)) = lang
          THEN Attributed(Head(ds)) ELSE <<>>)
         \o Appended(Tail(ds), lang)

\* C10: in TO2TBX.py and TO2TBX-GUI.py the list of a language holds, for the
\* kept denominations of that language in document order, each term of
\* clean_and_split_term in order of appearance with the category, type and
\* hierarchy of its denomination; equal terms are not merged, and
\* 'car (vehicle) | auto' gives 'car' and 'auto' with identical attributes.
C10_TermsAppendedInOrder ==
    (prog \in {"TO2TBX", "TO2TBX-GUI"} /\ cur # Idle) =>
        /\ \A lang \in DOMAIN cur.denominations_by_lang :
             cur.denominations_by_lang[lang] =
                Appended(SubSeq(CurrentEntry.denominacio, 1, cur.read), lang)
        /\ (cur.denomination = D_car_auto /\ cur.processed_terms # Idle) =>
             LET terms == cur.denominations_by_lang[L_es]
                 attributes == [category |-> S_N_f, type |-> S_Principal,
                                hierarchy |-> S_sigla]
             IN  /\ cur.processed_terms = PyList(<<T_car, T_auto>>)
                 /\ Len(terms) >= 2
                 /\ terms[Len(terms) - 1] =
                        [term |-> T_car, category |-> attributes.category,
                         type |-> attributes.type, hierarchy |-> attributes.hierarchy]
                 /\ terms[Len(terms)] =
                        [term |-> T_auto, category |-> attributes.category,
                         type |-> attributes.type, hierarchy |-> attributes.hierarchy]

\* C10 witness: 'car (vehicle) | auto' was read twice in one entry and the es
\* list holds car, auto, car, auto
C10_Witness ==
    /\ prog = "TO2TBX" /\ cur # Idle
    /\ cur.read = 2 /\ cur.denomination = D_car_auto
    /\ cur.processed_terms # Idle
    /\ Len(cur.denominations_by_lang[L_es]) = 4
    /\ cur.denominations_by_lang[L_es][1] = cur.denominations_by_lang[L_es][3]

-----------------------------------------------------------------------------
(* Properties of the output: columns, annotations, order, rows *)

Count(flag) == IF flag THEN 1 ELSE 0

TabularPrograms == {"TO2tabtxt-GUI", "TO2tabtxt"}

\* The include-flags a tabular converter has that are true: TO2tabtxt.py
\* takes area, definition and category only
TrueIncludeFlags ==
    Count(cfg.include_area) + Count(cfg.include_definition) + Count(cfg.include_category)
    + (IF prog = "TO2tabtxt-GUI"
       THEN Count(cfg.include_type) + Count(cfg.include_hierarchy) ELSE 0)

TBXPrograms == {"TO2TBX", "TO2TBX-GUI"}

\* The types of the termNotes of a tig
NoteTypes(tig) == {tig.termNotes[n].type : n \in 1..Len(tig.termNotes)}

\* The tigs of all exported termEntries
ExportedTigs ==
    UNION {UNION {{body[k].langSets[l].tigs[i] : i \in 1..Len(body[k].langSets[l].tigs)} :
                    l \in 1..Len(body[k].langSets)} :
             k \in 1..Len(body)}

\* The include-flag of an annotation is set and enabled; TO2TBX.py has flags for the
\* area, the definition and the category only
FlagEnabled(noteType) ==
    CASE noteType = "partOfSpeech" -> cfg.include_category
      [] noteType = "termType" -> prog = "TO2TBX-GUI" /\ cfg.include_type
      [] noteType = "normativeAuthorization" -> prog = "TO2TBX-GUI" /\ cfg.include_hierarchy

\* C12 as stated: in the output of both TBX converters no term carries a partOfSpeech,
\* termType or normativeAuthorization termNote whose include-flag is disabled or not set.
C12_NoDisabledAnnotation_AsStated ==
    prog \in TBXPrograms =>
        \A tig \in ExportedTigs : \A noteType \in NoteTypes(tig) : FlagEnabled(noteType)

\* C12: TO2TBX-GUI.py writes a classification termNote only when its include-flag is
\* enabled; TO2TBX.py writes partOfSpeech only when include_category is enabled, and writes
\* termType and normativeAuthorization for every exported term whose denomination has a
\* non-empty type or hierarchy, as it has no flag for them.
C12_NoDisabledAnnotation_Amended ==
    /\ prog = "TO2TBX-GUI" =>
         \A tig \in ExportedTigs : \A noteType \in NoteTypes(tig) : FlagEnabled(noteType)
    /\ prog = "TO2TBX" =>
         \A tig \in ExportedTigs : "partOfSpeech" \in NoteTypes(tig) => cfg.include_category
    /\ prog = "TO2TBX" /\ cur # Idle /\ cur.stage = "exported" =>
         \A l \in 1..Len(cur.emitted[1].langSets) :
            LET langSet == cur.emitted[1].langSets[l]
                lang_terms == cur.denominations_by_lang[langSet.lang]
            IN  /\ Len(langSet.tigs) = Len(lang_terms)
                /\ \A i \in 1..Len(lang_terms) :
                     /\ "termType" \in NoteTypes(langSet.tigs[i])
                            <=> lang_terms[i].type # <<>>
                     /\ "normativeAuthorization" \in NoteTypes(langSet.tigs[i])
                            <=> lang_terms[i].hierarchy # <<>>

\* C12 witness: TO2TBX.py, category annotations disabled, exports a term of a denomination
\* with a category and a type: the term has a termType note and no partOfSpeech note
C12_Witness ==
    /\ prog = "TO2TBX" /\ ~cfg.include_category
    /\ cur # Idle /\ cur.stage = "exported"
    /\ \E l \in DOMAIN cur.denominations_by_lang :
         \E i \in 1..Len(cur.denominations_by_lang[l]) :
            /\ cur.denominations_by_lang[l][i].category # <<>>
            /\ cur.denominations_by_lang[l][i].type # <<>>
    /\ \E tig \in ExportedTigs : NoteTypes(tig) = {"termType"}

\* The languages of the language groups of a termEntry, in output order
LangSetOrder(termEntry) == [l \in 1..Len(termEntry.langSets) |-> termEntry.langSets[l].lang]

\* The languages as configured: the list of TO2TBX.py, source then target otherwise
ConfiguredOrder ==
    IF prog = "TO2TBX"
    THEN [i \in 1..Len(cfg.languages.v) |-> Lower(Strip(cfg.languages.v[i]))]
    ELSE <<cfg.sl, cfg.tl>>

ConfiguredPosition(lang) ==
    CHOOSE i \in 1..Len(ConfiguredOrder) :
        /\ ConfiguredOrder[i] = lang
        /\ \A j \in 1..(i - 1) : ConfiguredOrder[j] # lang

\* A sequence of languages follows a reference sequence of languages
Follows(langs, reference) ==
    \A i, j \in 1..Len(langs) : i < j =>
        \E p, q \in 1..Len(reference) :
            p <= q /\ reference[p] = langs[i] /\ reference[q] = langs[j]

\* Inside a termEntry: subject annotation first, and in every language group the
\* definition annotation before the term groups, which are in extraction order
OrderedInside(termEntry, e) ==
    /\ \A k \in 2..Len(TermEntryChildren(termEntry)) :
         TermEntryChildren(termEntry)[k] = "langSet"
    /\ \A l \in 1..Len(termEntry.langSets) :
         LET langSet == termEntry.langSets[l]
             lang_terms == e.denominations_by_lang[langSet.lang]
         IN  /\ \A k \in 2..Len(LangSetChildren(langSet)) :
                  LangSetChildren(langSet)[k] = "tig"
             /\ Len(langSet.tigs) = Len(lang_terms)
             /\ \A i \in 1..Len(lang_terms) : langSet.tigs[i].term = lang_terms[i].term

\* C13 as stated: in every exported termEntry the language groups are in the configured
\* language order (so that two runs on the same input and configuration agree).
C13_ElementOrder_AsStated ==
    prog \in TBXPrograms =>
        \A k \in 1..Len(body) :
            \A i, j \in 1..Len(body[k].langSets) : i < j =>
                ConfiguredPosition(body[k].langSets[i].lang)
                    <= ConfiguredPosition(body[k].langSets[j].lang)

\* C13, per script: in every exported termEntry the subject annotation (if any) is first, and inside
\* each language group the definition annotation (if any) precedes the term groups, which
\* are in extraction order. In TO2TBX-GUI.py the language groups are source language, then
\* target language. In TO2TBX.py the language groups follow the iteration order of the set
\* of languages, which is the same for all entries of a run and is not determined by the
\* configuration.
C13_ElementOrder_PerScript ==
    /\ prog \in TBXPrograms /\ cur # Idle /\ cur.stage = "exported" =>
         OrderedInside(cur.emitted[1], cur)
    /\ prog = "TO2TBX-GUI" =>
         \A k \in 1..Len(body) : Follows(LangSetOrder(body[k]), <<cfg.sl, cfg.tl>>)
    /\ prog = "TO2TBX" /\ body # <<>> =>
         \E order \in Orderings(normalize_filter_list(cfg.languages).v) :
            \A k \in 1..Len(body) : Follows(LangSetOrder(body[k]), order)

\* C13 witness: TO2TBX.py, languages given as ca then es, exports a termEntry whose
\* language groups are es then ca, the first with its definition
C13_Witness ==
    /\ prog = "TO2TBX" /\ ConfiguredOrder = <<L_ca, L_es>>
    /\ cur # Idle /\ cur.stage = "exported"
    /\ LangSetOrder(cur.emitted[1]) = <<L_es, L_ca>>
    /\ LangSetChildren(cur.emitted[1].langSets[1]) = <<"descrip", "tig">>

\* The terms of a language among the terms kept for the entry, in extraction order
KeptTerms(lang) ==
    LET kept == SelectSeq(cur.filtered_denominations, LAMBDA d : d.lang = lang)
    IN  [i \in 1..Len(kept) |-> kept[i].term]

Max(a, b) == IF a >= b THEN a ELSE b

\* C14: every entry exported by TO2tabtxt-GUI.py yields |SL terms| x max(1, |TL terms|)
\* rows, one per pair of a source term and a target term in source-major order, with one
\* empty target term standing in when the entry has no target term.
C14_CrossProductRows ==
    prog = "TO2tabtxt-GUI" /\ cur # Idle /\ cur.stage = "exported" =>
        LET sources == KeptTerms(cfg.sl)
            targets == IF KeptTerms(cfg.tl) = <<>> THEN << <<>> >> ELSE KeptTerms(cfg.tl)
        IN  /\ Len(cur.emitted) = Len(sources) * Max(1, Len(KeptTerms(cfg.tl)))
            /\ \A i \in 1..Len(sources) : \A j \in 1..Len(targets) :
                 LET row == cur.emitted[(i - 1) * Len(targets) + j]
                 IN  row[1] = sources[i] /\ row[2] = targets[j]
            /\ Len(body) >= Len(cur.emitted)
            /\ SubSeq(body, Len(body) - Len(cur.emitted) + 1, Len(body)) = cur.emitted

\* C14 witness: an exported entry with two source terms and two different target terms
C14_Witness ==
    /\ prog = "TO2tabtxt-GUI" /\ cur # Idle /\ cur.stage = "exported"
    /\ cfg.sl # cfg.tl
    /\ Len(KeptTerms(cfg.sl)) = 2 /\ Len(KeptTerms(cfg.tl)) = 2
    /\ KeptTerms(cfg.sl)[1] # KeptTerms(cfg.sl)[2]
    /\ KeptTerms(cfg.tl)[1] # KeptTerms(cfg.tl)[2]
    /\ Len(cur.emitted) = 4

\* C14 witness for the placeholder: an exported entry with a source term and no target term
C14_WitnessPlaceholder ==
    /\ prog = "TO2tabtxt-GUI" /\ cur # Idle /\ cur.stage = "exported"
    /\ KeptTerms(cfg.tl) = <<>> /\ Len(cur.emitted) = Len(KeptTerms(cfg.sl))

\* The definitions of the current entry that a script takes for a language, in document
\* order: the TBX converters compare the normalised language code and pass over blank
\* texts, TO2tabtxt-GUI.py compares the language code as written
DefinitionsFor(lang) ==
    IF prog \in TBXPrograms
    THEN SelectSeq(CurrentEntry.definicio,
                   LAMBDA d : LanguageOf(d) = lang /\ Strip(d.text) # <<>>)
    ELSE SelectSeq(CurrentEntry.definicio, LAMBDA d : d.llengua = lang)

DefinitionText(d) ==
    IF prog \in TBXPrograms THEN Strip(d.text) ELSE ReplaceNewlines(Strip(d.text))

DefinitionColumn == 3 + Count(cfg.include_area)

\* The definition written for each language of the exported entry is the chosen
\* definition of that language
DefinitionRetained(Chosen(_)) ==
    /\ prog \in TBXPrograms =>
         \A l \in 1..Len(cur.emitted[1].langSets) :
            LET langSet == cur.emitted[1].langSets[l]
            IN  langSet.definition # PyNone =>
                    /\ DefinitionsFor(langSet.lang) # <<>>
                    /\ langSet.definition =
                         PyStr(DefinitionText(Chosen(DefinitionsFor(langSet.lang))))
    /\ prog = "TO2tabtxt-GUI" /\ cfg.include_definition /\ DefinitionsFor(cfg.sl) # <<>> =>
         \A k \in 1..Len(cur.emitted) :
            cur.emitted[k][DefinitionColumn] = DefinitionText(Chosen(DefinitionsFor(cfg.sl)))

First(s) == s[1]
Last(s) == s[Len(s)]

\* C15 as stated: when an entry has several definitions in a language of interest, the
\* definition written for that language is the first one in document order.
C15_FirstDefinition_AsStated ==
    prog \in {"TO2TBX", "TO2TBX-GUI", "TO2tabtxt-GUI"} /\ cur # Idle /\ cur.stage = "exported"
        => DefinitionRetained(First)

\* C15, per script: TO2tabtxt-GUI.py writes the first definition of the source language;
\* TO2TBX.py and TO2TBX-GUI.py write the last non-blank definition of each language; an
\* exported entry is one termEntry with at most one definition per language group
C15_FirstDefinition_PerScript ==
    /\ prog \in TBXPrograms /\ cur # Idle /\ cur.stage = "exported" =>
         DefinitionRetained(Last) /\ Len(cur.emitted) = 1
    /\ prog = "TO2tabtxt-GUI" /\ cur # Idle /\ cur.stage = "exported" =>
         DefinitionRetained(First)

\* C15 scenario: an exported entry with two different definitions in one language, one of
\* which is written
C15_Scenario ==
    /\ prog \in {"TO2TBX", "TO2TBX-GUI", "TO2tabtxt-GUI"} /\ cur # Idle /\ cur.stage = "exported"
    /\ cfg.include_definition
    /\ \E lang \in {L_ca} :
         /\ Len(DefinitionsFor(lang)) = 2
         /\ DefinitionText(DefinitionsFor(lang)[1]) # DefinitionText(DefinitionsFor(lang)[2])
         /\ IF prog \in TBXPrograms
            THEN \E l \in 1..Len(cur.emitted[1].langSets) :
                    /\ cur.emitted[1].langSets[l].lang = lang
                    /\ cur.emitted[1].langSets[l].definition # PyNone
            ELSE cfg.sl = lang /\ cur.emitted # <<>>

FlagNames == {"include_area", "include_definition", "include_category", "include_type",
              "include_hierarchy"}

\* Settings of the include-flags: all off, all on, and every single flag alone on or
\* alone off; and the configuration of the run with them
FlagSettings ==
    {[n \in FlagNames |-> IF n = name THEN b ELSE ~b] : name \in FlagNames, b \in BOOLEAN}
    \cup {[n \in FlagNames |-> b] : b \in BOOLEAN}

WithFlags(f) ==
    [cfg EXCEPT !.include_area = f.include_area,
                !.include_definition = f.include_definition,
                !.include_category = f.include_category,
                !.include_type = f.include_type,
                !.include_hierarchy = f.include_hierarchy]

\* The locals of the current entry before its denominations are read, under configuration c
BeginUnder(c) ==
    CASE prog = "TO2TBX" ->
            NewEntry(EntryId(CurrentEntry, entry_count), Strip(FindArea(CurrentEntry, <<>>)),
                     DefinitionsLoop(CurrentEntry.definicio, c.normalized_languages.v,
                                     NoDefinitions),
                     <<>>, c.normalized_languages.v)
      [] prog = "TO2TBX-GUI" ->
            NewEntry(EntryId(CurrentEntry, entry_count), Strip(FindArea(CurrentEntry, <<>>)),
                     DefinitionsLoop(CurrentEntry.definicio, {c.sl, c.tl}, NoDefinitions),
                     <<>>, {c.sl, c.tl})
      [] prog = "TO2tabtxt-GUI" ->
            NewEntry(EntryId(CurrentEntry, entry_count),
                     ReplaceNewlines(Strip(FindArea(CurrentEntry, <<>>))),
                     NoDefinitions,
                     IF c.include_definition
                     THEN tabtxt_DefinitionSL(CurrentEntry.definicio, c.sl) ELSE <<>>,
                     {c.sl, c.tl})
      [] prog = "TO2tabtxt" ->
            cli_NewEntry(Strip(FindArea(CurrentEntry, N_A)))

\* The locals after the denominations are read one by one, under configuration c
RECURSIVE ReadUnder(_, _, _)
ReadUnder(c, e, denominacio) ==
    IF denominacio = <<>> THEN e
    ELSE ReadUnder(c,
                   CASE prog = "TO2TBX" -> TBX_Denomination(c, e, Head(denominacio))
                     [] prog = "TO2TBX-GUI" -> GUI_Denomination(c, e, Head(denominacio))
                     [] prog = "TO2tabtxt-GUI" -> tabtxt_Denomination(c, e, Head(denominacio))
                     [] prog = "TO2tabtxt" -> cli_Denomination(c, e, Head(denominacio)),
                   Tail(denominacio))

EntryUnder(c) == ReadUnder(c, BeginUnder(c), CurrentEntry.denominacio)

\* The entry with locals e is exported under configuration c
ExportedUnder(c, e) ==
    CASE prog = "TO2TBX" -> e.has_valid_term
      [] prog = "TO2TBX-GUI" -> ~GUI_Skipped(c, e)
      [] prog = "TO2tabtxt-GUI" -> TermsOfLang(e.filtered_denominations, c.sl) # <<>>
      [] prog = "TO2tabtxt" -> e.terms_sl_data # <<>>

\* What is written for the entry with locals e under configuration c
OutputUnder(c, e) ==
    CASE prog = "TO2TBX" -> <<TBX_TermEntry(c, e)>>
      [] prog = "TO2TBX-GUI" -> <<GUI_TermEntry(c, e)>>
      [] prog = "TO2tabtxt-GUI" -> tabtxt_Rows(c, e)
      [] prog = "TO2tabtxt" -> cli_Rows(c, e, cli_DefinitionsSL(c, CurrentEntry.definicio))

\* The ordered term lists extracted for an entry
ExtractedTerms(e) ==
    CASE prog \in TBXPrograms ->
            [l \in DOMAIN e.denominations_by_lang |->
                [i \in 1..Len(e.denominations_by_lang[l]) |->
                    e.denominations_by_lang[l][i].term]]
      [] prog = "TO2tabtxt-GUI" ->
            [i \in 1..Len(e.filtered_denominations) |->
                <<e.filtered_denominations[i].lang, e.filtered_denominations[i].term>>]
      [] prog = "TO2tabtxt" ->
            <<[i \in 1..Len(e.terms_sl_data) |-> e.terms_sl_data[i][1]],
              [i \in 1..Len(e.terms_tl_data) |-> e.terms_tl_data[i][1]]>>

\* The terms in what is written for an entry: per language group, or the term pairs
WrittenTerms(emitted) ==
    IF prog \in TBXPrograms
    THEN [l \in 1..Len(emitted[1].langSets) |->
            <<emitted[1].langSets[l].lang,
              [i \in 1..Len(emitted[1].langSets[l].tigs) |->
                    emitted[1].langSets[l].tigs[i].term]>>]
    ELSE [k \in 1..Len(emitted) |-> <<emitted[k][1], emitted[k][2]>>]

\* The language groups that have terms
WithTerms(written) ==
    IF prog \in TBXPrograms THEN SelectSeq(written, LAMBDA g : g[2] # <<>>) ELSE written

Processed == pc = "loop" /\ cur # Idle /\ cur.stage \in {"exported", "skipped"}

\* C16 as stated: with any other setting of the include-flags the same entries are
\* exported, with the same ordered term lists and the same sequence of term pairs.
C16_FlagsDoNotFilter_AsStated ==
    Processed =>
        \A f \in FlagSettings :
            LET c == WithFlags(f)
                e == EntryUnder(c)
            IN  /\ ExportedUnder(c, e) <=> cur.stage = "exported"
                /\ ExtractedTerms(e) = ExtractedTerms(cur)
                /\ cur.stage = "exported" =>
                     WithTerms(WrittenTerms(OutputUnder(c, e)))
                        = WithTerms(WrittenTerms(cur.emitted))

\* Each element of a sequence repeated n times in a row
Repeated(s, n) == [k \in 1..(Len(s) * n) |-> s[((k - 1) \div n) + 1]]

\* The term pairs of the current entry of TO2tabtxt.py: source terms by target terms, an
\* empty target term standing in when there is none
CrossPairs ==
    LET sources == ExtractedTerms(cur)[1]
        targets == IF ExtractedTerms(cur)[2] = <<>> THEN << <<>> >>
                   ELSE ExtractedTerms(cur)[2]
    IN  [n \in 1..(Len(sources) * Len(targets)) |->
            <<sources[((n - 1) \div Len(targets)) + 1], targets[((n - 1) % Len(targets)) + 1]>>]

\* The rows TO2tabtxt.py writes per term pair: one per definition in the source language
\* when definitions are included, one otherwise
RowsPerPair(c) ==
    IF c.include_definition
    THEN Max(1, Len(SelectSeq(CurrentEntry.definicio, LAMBDA d : d.llengua = c.sl)))
    ELSE 1

\* C16: with any other setting of the include-flags the same entries are exported, with
\* the same ordered term lists; the term groups of the TBX converters and the sequence of
\* term pairs of TO2tabtxt-GUI.py are the same; in TO2tabtxt.py the term pairs are the same
\* but each is repeated once per source-language definition when include_definition is set,
\* so the sequences of term pairs agree when include_definition does.
C16_FlagsDoNotFilter_Amended ==
    Processed =>
        /\ \A f \in FlagSettings :
            LET c == WithFlags(f)
                e == EntryUnder(c)
            IN  /\ ExportedUnder(c, e) <=> cur.stage = "exported"
                /\ ExtractedTerms(e) = ExtractedTerms(cur)
                /\ cur.stage = "exported" =>
                     IF prog = "TO2tabtxt"
                     THEN WrittenTerms(OutputUnder(c, e)) = Repeated(CrossPairs, RowsPerPair(c))
                     ELSE WithTerms(WrittenTerms(OutputUnder(c, e)))
                            = WithTerms(WrittenTerms(cur.emitted))
        /\ cur.stage = "exported" => OutputUnder(cfg, EntryUnder(cfg)) = cur.emitted

\* C16 witness: TO2tabtxt.py with definitions included exports an entry with two
\* definitions in the source language, each term pair twice
C16_Witness ==
    /\ prog = "TO2tabtxt" /\ Processed /\ cur.stage = "exported"
    /\ cfg.include_definition /\ RowsPerPair(cfg) = 2
    /\ Len(cur.emitted) = 2 * Len(CrossPairs)
    /\ ExtractedTerms(cur)[2] # <<>>

\* The configuration and the locals of the current entry as TO2TBX-GUI.py has them after
\* reading the denominations
GUI_Cfg ==
    [cfg EXCEPT !.normalized_category_prefixes = normalize_filter_list_GUI(cfg.category_starts),
                !.normalized_type_filters = normalize_filter_list_GUI(cfg.type_filter),
                !.normalized_jerarquia_filter = normalize_filter_list_GUI(cfg.hierarchy_filter)]

RECURSIVE GUI_ReadAll(_, _, _)
GUI_ReadAll(c, e, denominacio) ==
    IF denominacio = <<>> THEN e
    ELSE GUI_ReadAll(c, GUI_Denomination(c, e, Head(denominacio)), Tail(denominacio))

GUI_Entry ==
    GUI_ReadAll(GUI_Cfg,
                NewEntry(EntryId(CurrentEntry, entry_count), Strip(FindArea(CurrentEntry, <<>>)),
                         DefinitionsLoop(CurrentEntry.definicio, {cfg.sl, cfg.tl}, NoDefinitions),
                         <<>>, {cfg.sl, cfg.tl}),
                CurrentEntry.denominacio)

\* The same for TO2tabtxt-GUI.py
tabtxt_Cfg ==
    [cfg EXCEPT !.normalized_category_prefixes =
                    normalize_filter_list_tabtxt(cfg.category_starts),
                !.normalized_type_filters = normalize_filter_list_tabtxt(cfg.type_filter),
                !.normalized_jerarquia_filter =
                    normalize_filter_list_tabtxt(cfg.hierarchy_filter)]

RECURSIVE tabtxt_ReadAll(_, _, _)
tabtxt_ReadAll(c, e, denominacio) ==
    IF denominacio = <<>> THEN e
    ELSE tabtxt_ReadAll(c, tabtxt_Denomination(c, e, Head(denominacio)), Tail(denominacio))

tabtxt_Entry ==
    tabtxt_ReadAll(tabtxt_Cfg,
                   NewEntry(EntryId(CurrentEntry, entry_count),
                            ReplaceNewlines(Strip(FindArea(CurrentEntry, <<>>))),
                            NoDefinitions,
                            IF cfg.include_definition
                            THEN tabtxt_DefinitionSL(CurrentEntry.definicio, cfg.sl) ELSE <<>>,
                            {cfg.sl, cfg.tl}),
                   CurrentEntry.denominacio)

TermsOf(records) == [i \in 1..Len(records) |-> records[i].term]

\* Whether each graphical converter exports the current entry, and its term lists
GUI_Exports == ~GUI_Skipped(GUI_Cfg, GUI_Entry)
GUI_TermList(lang) == TermsOf(GUI_Entry.denominations_by_lang[lang])
tabtxt_Exports ==
    SelectSeq(tabtxt_Entry.filtered_denominations, LAMBDA d : d.lang = cfg.sl) # <<>>
tabtxt_TermList(lang) ==
    TermsOf(SelectSeq(tabtxt_Entry.filtered_denominations, LAMBDA d : d.lang = lang))

\* s is t with some elements left out
RECURSIVE IsSubsequence(_, _)
IsSubsequence(s, t) ==
    IF s = <<>> THEN TRUE
    ELSE IF t = <<>> THEN FALSE
    ELSE IF Head(s) = Head(t) THEN IsSubsequence(Tail(s), Tail(t))
    ELSE IsSubsequence(s, Tail(t))

GraphicalRun == prog \in GraphicalPrograms /\ Processed

\* C17 as stated: for the same document, source/target pair and filters, TO2TBX-GUI.py and
\* TO2tabtxt-GUI.py export the same entries and, for each exported entry, the same ordered
\* source-language and target-language term lists.
C17_SameExtraction_AsStated ==
    GraphicalRun =>
        /\ GUI_Exports <=> tabtxt_Exports
        /\ GUI_Exports =>
            /\ GUI_TermList(cfg.sl) = tabtxt_TermList(cfg.sl)
            /\ GUI_TermList(cfg.tl) = tabtxt_TermList(cfg.tl)

\* C17, per script: the two converters export the same entries with the same source-language
\* term list; the target-language term list of TO2tabtxt-GUI.py, which filters the target
\* denominations too, is the list of TO2TBX-GUI.py with some terms left out
C17_SameExtraction_PerScript ==
    GraphicalRun =>
        /\ GUI_Exports <=> tabtxt_Exports
        /\ GUI_Exports <=> cur.stage = "exported"
        /\ GUI_Exports =>
            /\ GUI_TermList(cfg.sl) = tabtxt_TermList(cfg.sl)
            /\ IsSubsequence(tabtxt_TermList(cfg.tl), GUI_TermList(cfg.tl))
        /\ prog = "TO2TBX-GUI" => GUI_Entry = [cur EXCEPT !.stage = "reading", !.emitted = <<>>]
        /\ prog = "TO2tabtxt-GUI" =>
                tabtxt_Entry = [cur EXCEPT !.stage = "reading", !.emitted = <<>>]

\* C17 scenario: an exported entry whose target-language term fails an active filter
C17_Scenario ==
    /\ GraphicalRun /\ GUI_Exports /\ cfg.sl # cfg.tl
    /\ GUI_TermList(cfg.tl) # <<>> /\ tabtxt_TermList(cfg.tl) = <<>>

ErrorKinds == {"input error", "configuration error", "output error", "NameError"}

\* The error messages reported so far
Errors == SelectSeq(log, LAMBDA kind : kind \in ErrorKinds)

Reported(kind) == \E i \in 1..Len(log) : log[i] = kind

\* C18: when the input file is missing or is not XML, the output file is never touched, no
\* entry is processed, no success message, summary or warning is reported, and the run ends
\* with exactly one error message (the input error, unless the configuration was rejected
\* before the file was read).
C18_InputErrorAborts ==
    InputFailed =>
        /\ output_file = "untouched" /\ body = <<>>
        /\ entry_count = 0 /\ exported_entries = 0 /\ cur = Idle
        /\ ~Reported("success") /\ ~Reported("summary") /\ ~Reported("warning")
        /\ ~Reported("loaded")
        /\ Len(Errors) <= 1
        /\ pc = "done" =>
            /\ Len(Errors) = 1
            /\ Errors[1] \in {"input error", "configuration error"}
            /\ Errors[1] = log[Len(log)]
            /\ Errors[1] = "configuration error" =>
                    \/ prog = "TO2TBX" /\ ~Truthy(normalize_filter_list(cfg.languages))
                    \/ prog \in GraphicalPrograms /\ (cfg.sl_code = <<>> \/ cfg.tl_code = <<>>)
                    \/ prog = "TO2tabtxt-GUI" /\ (cfg.sl = <<>> \/ cfg.tl = <<>>)

\* C18 witness: a run of a converter the claim names has ended on an unparseable input
\* with the input error as its only error
C18_Witness ==
    /\ prog \in {"TO2TBX", "TO2tabtxt-GUI", "TO2tabtxt"}
    /\ root.t = "ParseError" /\ pc = "done"
    /\ Errors = <<"input error">> /\ output_file = "untouched"

\* Every language code the configuration supplies is empty or blank after trimming
NoQualifyingLanguage ==
    IF prog = "TO2TBX"
    THEN \A i \in 1..Len(cfg.languages.v) : Strip(cfg.languages.v[i]) = <<>>
    ELSE Strip(cfg.sl_code) = <<>> /\ Strip(cfg.tl_code) = <<>>

\* The run was rejected before the document was read
RejectedBeforeParsing ==
    /\ ~Reported("loaded") /\ ~Reported("input error")
    /\ entry_count = 0 /\ exported_entries = 0 /\ cur = Idle /\ body = <<>>
    /\ output_file = "untouched"
    /\ pc = "done" => Errors = <<"configuration error">>

\* C19 as stated: a configuration without a qualifying language code is rejected before the
\* input document is parsed, and no entry is processed or exported (TO2TBX.py, TO2TBX-GUI.py
\* and TO2tabtxt-GUI.py).
C19_NoLanguageRejected_AsStated ==
    prog \in {"TO2TBX", "TO2TBX-GUI", "TO2tabtxt-GUI"} /\ NoQualifyingLanguage
        => RejectedBeforeParsing

\* C19, per script: TO2TBX.py and TO2tabtxt-GUI.py reject a configuration without a
\* qualifying language code before parsing; TO2TBX-GUI.py rejects it when a code is empty as
\* typed, and otherwise reads the document and processes its entries
C19_NoLanguageRejected_PerScript ==
    /\ prog \in {"TO2TBX", "TO2tabtxt-GUI"} /\ NoQualifyingLanguage => RejectedBeforeParsing
    /\ prog = "TO2TBX-GUI" /\ (cfg.sl_code = <<>> \/ cfg.tl_code = <<>>)
            => RejectedBeforeParsing
    /\ prog = "TO2TBX-GUI" /\ NoQualifyingLanguage /\ pc = "done"
        /\ cfg.sl_code # <<>> /\ cfg.tl_code # <<>> /\ ~InputFailed
            => Reported("loaded") /\ entry_count = Len(root.fitxa)

\* C19 scenario: TO2TBX-GUI.py, both language codes a blank, has read the document and
\* processed an entry
C19_Scenario ==
    /\ prog = "TO2TBX-GUI" /\ cfg.sl_code = S_blank /\ cfg.tl_code = S_blank
    /\ Reported("loaded") /\ entry_count > 0

\* All entries of the document have been processed
AllProcessed == entry_count = Len(root.fitxa) /\ (cur # Idle => cur.stage # "reading")

NoSuccessAfterError ==
    \A i, j \in 1..Len(log) : i < j /\ log[i] \in ErrorKinds => log[j] # "success"

C20_WitnessAfterProcessing ==
    /\ prog = "TO2TBX" /\ Reported("output error")
    /\ Len(root.fitxa) > 0 /\ AllProcessed

Successful == Reported("success")

\* C21 as stated: every successful run reports a summary whose scanned count is the number
\* of entries of the document and whose exported count is the number of entries exported,
\* at most the scanned count; a run that exports nothing also reports a warning.
C21_SummaryCounts_AsStated ==
    Successful =>
        /\ Reported("summary")
        /\ entry_count = Len(root.fitxa)
        /\ exported_entries <= entry_count
        /\ prog \in TBXPrograms => exported_entries = Len(body)
        /\ body = <<>> => Reported("warning")
        /\ output_file = "written" /\ Errors = <<>>

\* C21: a successful run of TO2TBX.py or TO2TBX-GUI.py reports the number of entries
\* scanned, which is the number of entries of the document, and the number of termEntries
\* written, which is at most the scanned count; a successful run of TO2tabtxt-GUI.py
\* reports the number of entries scanned and the number of rows written, which may exceed
\* the scanned count; these three report a warning exactly when the reported output count is
\* zero, and still report success. TO2tabtxt.py reports success and its settings, without
\* counts and without a warning.
C21_SummaryCounts_Amended ==
    Successful =>
        /\ output_file = "written" /\ Errors = <<>> /\ pc = "done"
        /\ entry_count = Len(root.fitxa)
        /\ prog # "TO2tabtxt" =>
            /\ Reported("summary")
            /\ exported_entries = Len(body)
            /\ Reported("warning") <=> exported_entries = 0
        /\ prog \in TBXPrograms => exported_entries <= entry_count
        /\ prog = "TO2tabtxt" =>
            ~Reported("summary") /\ ~Reported("warning") /\ Reported("settings")

\* C21 witness: a successful run of TO2tabtxt-GUI.py that reports more rows than entries
C21_Witness ==
    /\ prog = "TO2tabtxt-GUI" /\ Successful /\ Reported("summary")
    /\ exported_entries > entry_count

\* C21 witness for the warning: a successful run of TO2TBX.py without any termEntry
C21_WitnessWarning ==
    /\ prog = "TO2TBX" /\ Successful /\ Reported("warning")
    /\ Len(root.fitxa) > 0 /\ body = <<>>

\* The decimal numeral of a small position
Numeral(n) == CASE n = 1 -> <<"1">> [] n = 2 -> <<"2">> [] n = 3 -> <<"3">> [] n = 4 -> <<"4">>

\* C22: in TO2TBX.py and TO2TBX-GUI.py an exported entry with a num attribute has that value
\* as its id, and an exported entry without one has the id e<N>, N being the 1-based
\* position of the entry among all entries of the document, exported or not.
C22_EntryIdentifier ==
    prog \in TBXPrograms /\ cur # Idle /\ cur.stage = "exported" =>
        /\ Len(cur.emitted) = 1
        /\ body[Len(body)] = cur.emitted[1]
        /\ cur.emitted[1].id =
                IF CurrentEntry.num # PyNone THEN CurrentEntry.num.v
                ELSE <<"e">> \o Numeral(entry_count)

\* C22 witness: the second entry of a document has no identifier and is exported as e2
\* after the first entry was skipped
C22_Witness ==
    /\ prog \in TBXPrograms /\ cur # Idle /\ cur.stage = "exported"
    /\ entry_count = 2 /\ CurrentEntry.num = PyNone
    /\ Len(body) = 1 /\ body[1].id = <<"e", "2">>

\* C22 witness for a kept identifier
C22_WitnessKept ==
    /\ prog \in TBXPrograms /\ cur # Idle /\ cur.stage = "exported"
    /\ CurrentEntry.num = PyStr(X_7) /\ cur.emitted[1].id = X_7

\* C23 as stated: no field of a row of the tabular output holds a line break or needs
\* quoting, so each row is one line of fields separated by single tabs.
C23_PlainFields_AsStated ==
    prog \in TabularPrograms =>
        \A k \in 1..Len(body) : \A j \in 1..Len(body[k]) : ~csv_NeedsQuote(body[k][j])

HasNewline(field) == \E i \in 1..Len(field) : field[i] = "\n"

\* C23, per script: the newlines of the area and of the definition are replaced by spaces in
\* TO2tabtxt-GUI.py, those of the definition in TO2tabtxt.py; nothing else is replaced
C23_PlainFields_PerScript ==
    /\ prog = "TO2tabtxt-GUI" /\ cfg.include_area /\ cfg.include_definition =>
         \A k \in 1..Len(body) : ~HasNewline(body[k][3]) /\ ~HasNewline(body[k][4])
    /\ prog = "TO2tabtxt" /\ cfg.include_category /\ cfg.include_area
        /\ cfg.include_definition =>
         \A k \in 1..Len(body) : ~HasNewline(body[k][6])

\* C23 scenario: a written file with a row whose source term holds a line break
C23_Scenario ==
    /\ prog \in TabularPrograms /\ output_file = "written"
    /\ \E k \in 1..Len(body) : HasNewline(body[k][1])

-----------------------------------------------------------------------------
(* The filters of the command-line tabular converter *)

\* C24 as stated: in TO2tabtxt.py a run with a type filter never fails, it
\* runs to completion and writes its output, and a denomination that is kept
\* has a type of the filter.
C24_TypeFilterCompletes_AsStated ==
    prog = "TO2tabtxt" /\ ~InputFailed /\ Truthy(cfg.type_filter) =>
        /\ ~Reported("NameError")
        /\ pc = "done" => output_file \in {"written", "failed"}
        /\ (cur # Idle /\ cur.processed_terms # Idle) =>
                Lower(Strip(cur.denomination.tipus)) \in
                    cli_NormalizedSet(cfg.type_filter).v

\* C24, what TO2tabtxt.py does: with a type filter and a readable document the
\* run ends with a NameError before any entry is read, and writes no file.
C24_TypeFilterCompletes_PerScript ==
    (prog = "TO2tabtxt" /\ ~InputFailed /\ Truthy(cfg.type_filter) /\ pc = "done") =>
        /\ Reported("NameError")
        /\ ~Successful
        /\ entry_count = 0 /\ cur = Idle /\ body = <<>>
        /\ output_file = "untouched"

\* C24: a run of TO2tabtxt.py with a type filter on a document with entries
\* has ended with a NameError.
C24_Scenario ==
    /\ prog = "TO2tabtxt" /\ Truthy(cfg.type_filter) /\ pc = "done"
    /\ ~InputFailed /\ Len(root.fitxa) > 0
    /\ Reported("NameError")

\* C25 as stated: in TO2tabtxt.py with a hierarchy filter, a denomination whose
\* terms are taken into the output has a hierarchy attribute that matches one
\* of the values of the filter.
C25_HierarchyFilter_AsStated ==
    (/\ prog = "TO2tabtxt" /\ Truthy(cfg.hierarchy_filter)
     /\ cur # Idle /\ cur.processed_terms # Idle
     /\ cur.denomination.llengua \in {cfg.sl, cfg.tl}) =>
        Lower(Strip(cur.denomination.jerarquia)) \in
            cli_NormalizedSet(cfg.hierarchy_filter).v

\* C25, what TO2tabtxt.py does: the hierarchy filter of the command line never
\* reaches the conversion, and without a type filter a denomination is kept
\* exactly when its term is not blank and its category is missing or starts
\* with a prefix of the category filter, whatever its hierarchy.
C25_HierarchyFilter_PerScript ==
    (prog = "TO2tabtxt" /\ cur # Idle /\ cur.denomination # Idle) =>
        /\ cfg.normalized_jerarquia_filter = PyNone
        /\ cur.processed_terms # Idle <=>
            /\ Strip(cur.denomination.text) # <<>>
            /\ \/ ~Truthy(cfg.normalized_category_prefixes)
               \/ Strip(cur.denomination.categoria) = <<>>
               \/ \E prefix \in cfg.normalized_category_prefixes.v :
                    StartsWith(Lower(Strip(cur.denomination.categoria)), prefix)

\* C25: a run of TO2tabtxt.py with the hierarchy filter 'sin' has written rows
\* with a term whose hierarchy is 'sigla'.
C25_Scenario ==
    /\ prog = "TO2tabtxt" /\ cfg.hierarchy_filter = PyList(<<S_sin>>)
    /\ pc = "done" /\ output_file = "written"
    /\ cur # Idle /\ cur.stage = "exported" /\ cur.processed_terms # Idle
    /\ Strip(cur.denomination.jerarquia) = S_sigla
    /\ cur.denomination.llengua \in {cfg.sl, cfg.tl}
    /\ cur.emitted # <<>> /\ IsSubsequence(cur.emitted, body)

-----------------------------------------------------------------------------
(* The order of the output *)

\* C26: the output only grows at its end, and it grows only when the loop
\* leaves an entry that was being read: what is written for that entry comes
\* after everything written for the entries before it. An entry is left once,
\* because the loop then moves to the next entry, and in the TBX converters
\* leaving it adds exactly one termEntry.
C26_DocumentOrder ==
    [][/\ body' # body =>
            /\ pc = "denominations" /\ pc' = "loop"
            /\ entry_count' = entry_count
            /\ cur.stage = "reading" /\ cur'.stage = "exported"
            /\ body' = body \o cur'.emitted
            /\ prog \in TBXPrograms => Len(cur'.emitted) = 1
       /\ (cur # Idle /\ cur.stage \in {"exported", "skipped"}) =>
            \/ entry_count' = entry_count + 1
            \/ UNCHANGED <<entry_count, cur, body>>]_vars

\* C26: TO2TBX.py has exported two entries, and the termEntry of the second
\* differs from that of the first.
C26_Witness ==
    /\ prog = "TO2TBX" /\ pc = "loop" /\ entry_count = 2
    /\ Len(body) = 2 /\ body[1] # body[2]
    /\ cur.emitted = <<body[2]>>

\* C26: TO2tabtxt-GUI.py has written rows for two entries.
C26_WitnessRows ==
    /\ prog = "TO2tabtxt-GUI" /\ pc = "loop" /\ entry_count = 2
    /\ cur.stage = "exported" /\ Len(body) > Len(cur.emitted)

-----------------------------------------------------------------------------
(* Entries with missing fields *)

\* The current entry has been exported
Exported == cur # Idle /\ cur.stage = "exported"

\* The positions of the thematic area and of the definition in a row
AreaColumn == IF prog = "TO2tabtxt" /\ cfg.include_category THEN 5 ELSE 3
DefinitionPosition == AreaColumn + Count(cfg.include_area)

\* A run that has entered the loop over the entries ends only after the last one
LoopCompletes == (pc = "done" /\ entry_count >= 1) => entry_count = Len(root.fitxa)

C27_WitnessTBX ==
    /\ prog \in TBXPrograms /\ Exported /\ cfg.include_area /\ cfg.include_definition
    /\ CurrentEntry.num = PyNone /\ CurrentEntry.areatematica = PyNone
    /\ CurrentEntry.definicio = <<>>

-----------------------------------------------------------------------------
(* The Term Cleaner on brackets that are never closed *)

\* The opening brackets of s with no closing bracket of their kind after them
Unclosed(s) ==
    {p \in 1..Len(s) :
        \/ s[p] = "(" /\ \A k \in (p + 1)..Len(s) : s[k] # ")"
        \/ s[p] = "[" /\ \A k \in (p + 1)..Len(s) : s[k] # "]"}

\* The matches that re.sub deletes, each from its first character (the
\* whitespace before the bracket included) to its closing bracket
RECURSIVE Removals(_, _)
Removals(s, i) ==
    IF i > Len(s) THEN {}
    ELSE LET k == MatchEnd(s, i)
         IN  IF k > 0 THEN {<<i, k>>} \cup Removals(s, k + 1) ELSE Removals(s, i + 1)

Enclosed(s, p) == \E r \in Removals(s, 1) : r[1] <= p /\ p <= r[2]

\* The list made of a cleaned text: split at '|', pieces stripped, empty
\* pieces dropped
Pieces(text) ==
    IF Contains(text, "|") THEN StripNonEmpty(split(text, "|"))
    ELSE IF text # <<>> THEN <<text>> ELSE <<>>

\* C28 as stated: when the raw term has an opening bracket with no closing
\* bracket of its kind after it, the result is made of the text before the
\* first such bracket with its complete pairs removed, followed by the text
\* from that bracket to the end unchanged.
C28_UnclosedBracket_AsStated ==
    (fn \in Cleaners /\ ret # Idle /\ Unclosed(arg.v) # {}) =>
        LET s == arg.v
            p == SetMin(Unclosed(s))
            expected == Pieces(Strip(re_sub(SubSeq(s, 1, p - 1), 1) \o SubSeq(s, p, Len(s))))
        IN  ret.v = expected /\ clean_and_split_term_cli(s) = expected

\* C28 amended: when the first opening bracket with no closing bracket of its
\* kind after it does not lie inside a complete pair, that bracket is kept and
\* the texts before it and after it are cleaned separately: complete pairs are
\* removed on both sides.
C28_UnclosedBracket_Amended ==
    (fn \in Cleaners /\ ret # Idle /\ Unclosed(arg.v) # {}
        /\ ~Enclosed(arg.v, SetMin(Unclosed(arg.v)))) =>
        LET s == arg.v
            p == SetMin(Unclosed(s))
            expected == Pieces(Strip(re_sub(SubSeq(s, 1, p - 1), 1) \o <<s[p]>>
                                     \o re_sub(SubSeq(s, p + 1, Len(s)), 1)))
        IN  ret.v = expected /\ clean_and_split_term_cli(s) = expected

\* C28: 'gos (ca [x] | ca' has been cleaned: the parenthesis is never closed,
\* the pair of square brackets after it is removed.
C28_Witness ==
    /\ fn = "TO2TBX.clean_and_split_term" /\ arg = PyStr(T_unclosed)
    /\ ret = PyList(<<<<"g", "o", "s", " ", "(", "c", "a">>, <<"c", "a">>>>)

-----------------------------------------------------------------------------
(* The langSets and the identifiers of the TBX output *)

\* The langSets of a termEntry have pairwise different languages
OneLangSetPerLanguage(termEntry) ==
    \A i, j \in 1..Len(termEntry.langSets) :
        i # j => termEntry.langSets[i].lang # termEntry.langSets[j].lang

\* The terms extracted for a language are written once: in one langSet when
\* there are any, in at most one otherwise
TermsWrittenOnce(termEntry, e) ==
    \A l \in DOMAIN e.denominations_by_lang :
        LET sets == {i \in 1..Len(termEntry.langSets) : termEntry.langSets[i].lang = l}
        IN  /\ Cardinality(sets) <= 1
            /\ e.denominations_by_lang[l] # <<>> => Cardinality(sets) = 1

\* C29 as stated: every termEntry written by a TBX converter has at most one
\* langSet per language, and the terms extracted for a language are in exactly
\* one langSet, also when the source language is the target language.
C29_OneLangSet_AsStated ==
    prog \in TBXPrograms =>
        /\ \A k \in 1..Len(body) : OneLangSetPerLanguage(body[k])
        /\ Exported => TermsWrittenOnce(cur.emitted[1], cur)

\* C29, what the scripts do: TO2TBX.py writes one langSet per language; so does
\* TO2TBX-GUI.py when the two languages differ, but with the source language
\* equal to the target language every termEntry has two langSets of that
\* language with the same terms.
C29_OneLangSet_PerScript ==
    /\ (prog = "TO2TBX" \/ (prog = "TO2TBX-GUI" /\ cfg.sl # cfg.tl)) =>
        /\ \A k \in 1..Len(body) : OneLangSetPerLanguage(body[k])
        /\ Exported => TermsWrittenOnce(cur.emitted[1], cur)
    /\ (prog = "TO2TBX-GUI" /\ cfg.sl = cfg.tl) =>
        \A k \in 1..Len(body) :
            /\ Len(body[k].langSets) = 2
            /\ body[k].langSets[1] = body[k].langSets[2]

\* C29: TO2TBX-GUI.py with sl = tl = 'ca' has written a termEntry with two
\* langSets for 'ca'.
C29_Scenario ==
    /\ prog = "TO2TBX-GUI" /\ cfg.sl = L_ca /\ cfg.tl = L_ca
    /\ pc = "done" /\ output_file = "written"
    /\ body # <<>> /\ Len(body[1].langSets) = 2
    /\ body[1].langSets[1].lang = L_ca /\ body[1].langSets[2].lang = L_ca
    /\ body[1].langSets[1].tigs # <<>>

\* The identifiers given in the document are pairwise different
SourceIdsDistinct ==
    \A i, j \in 1..Len(root.fitxa) :
        (i # j /\ root.fitxa[i].num # PyNone /\ root.fitxa[j].num # PyNone) =>
            root.fitxa[i].num # root.fitxa[j].num

\* No identifier given in the document is the generated identifier of an
\* entry without one
NoGeneratedIdGiven ==
    \A i, j \in 1..Len(root.fitxa) :
        (root.fitxa[i].num # PyNone /\ root.fitxa[j].num = PyNone) =>
            root.fitxa[i].num.v # FallbackId(j)

IdsDistinct == \A i, j \in 1..Len(body) : i # j => body[i].id # body[j].id

\* C30 as stated: the termEntry ids of one TBX output are pairwise different,
\* also for a document in which some entries have an identifier and others have
\* none (the identifiers given in the document being different from each other).
C30_DistinctIds_AsStated ==
    (prog \in TBXPrograms /\ ~InputFailed /\ SourceIdsDistinct) => IdsDistinct

\* C30, what the scripts do: the ids are pairwise different when the
\* identifiers given in the document are, and none of them is the e<N> that is
\* generated for an entry without identifier.
C30_DistinctIds_PerScript ==
    (prog \in TBXPrograms /\ ~InputFailed /\ SourceIdsDistinct /\ NoGeneratedIdGiven) =>
        IdsDistinct

\* C30: a TBX converter has written two termEntries with the id e2: the first
\* entry has the identifier e2, the second entry has none.
C30_Scenario ==
    /\ prog \in TBXPrograms /\ pc = "done" /\ output_file = "written"
    /\ Len(root.fitxa) = 2
    /\ root.fitxa[1].num = PyStr(FallbackId(2)) /\ root.fitxa[2].num = PyNone
    /\ Len(body) = 2 /\ body[1].id = FallbackId(2) /\ body[2].id = FallbackId(2)

====
